---- MODULE Spec2Model ----
(***************************************************************************)
(* A model of the CSO2 master server core: the framed TCP connection       *)
(* (ExtendedSocket), the registry of authenticated connections             *)
(* (ActiveConnections), the login handler (UserManager) and the room       *)
(* handlers (RoomHandler).                                                 *)
(***************************************************************************)
EXTENDS Integers, Sequences, FiniteSets, TLC

(***************************************************************************)
(* Bounds of the model.                                                    *)
(***************************************************************************)
\* connections the server accepts in the socket and login specifications
NumNetConns == 2
\* frames written per connection in the socket specification
MaxFrames == 3
\* user ids the user service knows
NumUsers == 1
\* LOGIN packets handled in the login specification
MaxLogins == 2

\* rooms a channel holds at a time
NumRooms == 2
\* player slots of a room
RoomCapacity == 2

NetConns == 1..NumNetConns
RoomIds == 1..NumRooms
Conns == 1..NumNetConns
Users == 1..NumUsers
Tasks == 1..MaxLogins

(***************************************************************************)
(* Program constants.                                                      *)
(***************************************************************************)
MIN_SEQUENCE == 0
MAX_SEQUENCE == 255

\* a reference that is null
null == 0

\* The value of a number field that was never assigned (undefined), and of
\* the NaN that undefined++ leaves behind.  Every comparison with it is
\* false and every arithmetic step on it yields it again.
NotANumber == 0 - 1

VARIABLES
    sock,         \* c -> the ExtendedSocket: state, seq, realOutSeq, wire
    logPackets,   \* whether connections carry a packetDumper
    connections,  \* ActiveConnections.connections
    session,      \* c -> ExtendedSocket.session
    task,         \* t -> an invocation of onLoginPacket
    closing,      \* c -> OnSocketClosed(c): "no" (not called), "closed"
                  \*      (returned, no session), "awaitLogout", "loggedOut"
    log,          \* t -> what invocation t did so far, in program order
    rooms,        \* room id -> the Room of the channel with that id
    sent,         \* the frames the last room operation wrote, in order
    op,           \* the last socket or room operation that ran
    ret,          \* the value it returned
    thrown,       \* whether it ended in an uncaught exception instead
    before,       \* what the last room operation found: the requester's
                  \* currentRoom and the free slots of the room it chose
    packet,       \* an OutPacketBase object that is sent to several
                  \* connections: its built buffer, and the sequence
                  \* number each connection assigned to it
    userCache,    \* website UsersService: the LRU cache of users by id
    userSvc,      \* the user service behind it, and what the last call
                  \* of UsersService did
    pstr,         \* a PacketString on its way through toBuffer and from
    proc          \* the server process: masterServer, the startup loop,
                  \* the signals it received

vars ==
    <<sock, logPackets, connections, session, task, closing, log, rooms, sent,
      op, ret, thrown, before, packet, userCache, userSvc, pstr, proc>>

(***************************************************************************)
(* ExtendedSocket                                                          *)
(***************************************************************************)
\* JavaScript's s > m: false when s is undefined or NaN
GreaterThan(s, m) == s # NotANumber /\ s > m

\* JavaScript's s++ : the value stored back
PostIncrement(s) == IF s = NotANumber THEN NotANumber ELSE s + 1

\* Buffer.writeUInt8(v): the byte stored; NaN is stored as 0
StoredByte(v) == IF v = NotANumber THEN 0 ELSE v % 256

\* resetReq(): the sequence set to the start
resetReq == MIN_SEQUENCE

\* getNextSeq(): returns the current sequence and increments it
getNextSeq(s) ==
    LET cur == IF GreaterThan(s, MAX_SEQUENCE) THEN resetReq ELSE s
    IN  [value |-> cur, seq |-> PostIncrement(cur)]

\* getRealOutSeq(): returns the real out sequence and increments it
getRealOutSeq(r) == [value |-> r, realOutSeq |-> r + 1]

\* a socket the server has not accepted yet
NoSocket ==
    [state |-> "none", seq |-> NotANumber, realOutSeq |-> NotANumber,
     wire |-> <<>>]

\* ExtendedSocket.from: the fields the factory assigns; seq is not among them
from(s) == [s EXCEPT !.state = "open", !.realOutSeq = MIN_SEQUENCE]

\* the frame written by send / sendBuffer: its sequence byte, what it holds
\* and the handler invocation that wrote it
Frame(byte, kind, by) == [seq |-> byte, kind |-> kind, by |-> by]

\* send without its test of the destroyed flag
send_NoDestroyedCheck(s, dumper, kind, by) ==
    LET n == getNextSeq(s.seq)
    IN  [s EXCEPT
            !.seq = n.seq,
            !.realOutSeq =
                IF dumper THEN getRealOutSeq(@).realOutSeq ELSE @,
            !.wire = Append(@, Frame(StoredByte(n.value), kind, by))]

\* ExtendedSocket.send(packet): the socket after the call
send(s, dumper, kind, by) ==
    IF s.state = "destroyed"
    THEN s
    ELSE LET n == getNextSeq(s.seq)
         IN  [s EXCEPT
                 !.seq = n.seq,
                 !.realOutSeq =
                     IF dumper THEN getRealOutSeq(@).realOutSeq ELSE @,
                 !.wire = Append(@, Frame(StoredByte(n.value), kind, by))]

\* ExtendedSocket.sendBuffer(buff): the socket after the call
sendBuffer(s, kind, by) ==
    IF s.state = "destroyed"
    THEN s
    ELSE LET n == getNextSeq(s.seq)
         IN  [s EXCEPT
                 !.seq = n.seq,
                 !.wire = Append(@, Frame(StoredByte(n.value), kind, by))]

\* the socket destroyed
destroy(s) == [s EXCEPT !.state = "destroyed"]

(***************************************************************************)
(* ActiveConnections                                                       *)
(***************************************************************************)
\* Array.indexOf: the first index holding c, or 0 when there is none
\* (indices count from 1 here)
IndexOf(list, c) ==
    IF \E i \in 1..Len(list) : list[i] = c
    THEN CHOOSE i \in 1..Len(list) :
             list[i] = c /\ \A j \in 1..(i - 1) : list[j] # c
    ELSE 0

\* list with the element at index i removed
RemoveAt(list, i) ==
    [j \in 1..(Len(list) - 1) |-> IF j < i THEN list[j] ELSE list[j + 1]]

\* Array.splice(start, 1) with start = indexOf(c): a start of -1 (not
\* found) counts from the end and removes the last element
Splice1(list, i) ==
    IF Len(list) = 0 THEN list
    ELSE IF i = 0 THEN RemoveAt(list, Len(list))
    ELSE RemoveAt(list, i)

\* ActiveConnections.Add
Add(list, c) == Append(list, c)

\* ActiveConnections.Remove
Remove(list, c) == Splice1(list, IndexOf(list, c))

\* ActiveConnections.FindByOwnerId: the first connection of that owner
FindByOwnerId(list, sess, ownerId) ==
    IF \E i \in 1..Len(list) : sess[list[i]].user = ownerId
    THEN list[CHOOSE i \in 1..Len(list) :
             /\ sess[list[i]].user = ownerId
             /\ \A j \in 1..(i - 1) : sess[list[j]].user # ownerId]
    ELSE null

(***************************************************************************)
(* UserSession                                                             *)
(***************************************************************************)
\* sid tells one session object from another: the invocation that made it
NoSession ==
    [user |-> null, currentChannel |-> null, currentRoom |-> null,
     sid |-> null]

\* new UserSession(user, address)
UserSession(u, sid) ==
    [user |-> u, currentChannel |-> null, currentRoom |-> null, sid |-> sid]

\* an invocation of onLoginPacket that has not started
IdleTask == [pc |-> "idle", conn |-> null, user |-> null]

NoOp == [name |-> "none", conn |-> null, by |-> null]
Op(name, c, by) == [name |-> name, conn |-> c, by |-> by]

(***************************************************************************)
(* Room and Channel: the state the room handlers read and change.  A room  *)
(* is a record of its status, its host's user id, its occupants in join    *)
(* order, its settings and its countdown value; a room id that holds no    *)
(* room holds ClosedRoom.                                                  *)
(***************************************************************************)
Teams == {"Terror", "Counter"}
MapIds == {1, 2}
Passwords == {"", "secret"}
Counts == {0, 5}

NoSettings == [mapId |-> null, roomPassword |-> "", areBotsEnabled |-> FALSE]

ClosedRoom ==
    [status |-> "Closed", host |-> null, users |-> <<>>,
     settings |-> NoSettings, countdown |-> 0]

\* a player slot taken by user u on connection c
RoomUser(u, c, team) ==
    [userId |-> u, conn |-> c, ready |-> "NotReady", team |-> team]

\* the first slot of the room that user u holds, or 0
UserSlot(room, u) ==
    IF \E i \in 1..Len(room.users) : room.users[i].userId = u
    THEN CHOOSE i \in 1..Len(room.users) :
             /\ room.users[i].userId = u
             /\ \A j \in 1..(i - 1) : room.users[j].userId # u
    ELSE 0

\* the user ids of the room's occupants
Occupants(room) == {room.users[i].userId : i \in 1..Len(room.users)}

\* Channel.getRoomById: the room with that id, or null
getRoomById(rs, id) ==
    IF id \in RoomIds /\ rs[id].status # "Closed" THEN id ELSE null

\* the id Channel.createRoom gives the next room: the lowest free one
FreeRoomId(rs) ==
    IF \E r \in RoomIds : rs[r].status = "Closed"
    THEN CHOOSE r \in RoomIds :
             /\ rs[r].status = "Closed"
             /\ \A q \in 1..(r - 1) : rs[q].status # "Closed"
    ELSE null

\* Channel.createRoom: a room in Waiting, the requester its host and first
\* occupant
createRoom(rs, u, c, team, options) ==
    [rs EXCEPT ![FreeRoomId(rs)] =
        [status |-> "Waiting", host |-> u,
         users |-> <<RoomUser(u, c, team)>>,
         settings |-> [mapId |-> options.mapId,
                       roomPassword |-> options.roomPassword,
                       areBotsEnabled |-> FALSE],
         countdown |-> 0]]

\* Room.hasFreeSlots
hasFreeSlots(room) == Len(room.users) < RoomCapacity

\* Room.IsPasswordProtected, Room.ComparePassword
IsPasswordProtected(room) == room.settings.roomPassword # ""
ComparePassword(room, password) == room.settings.roomPassword = password

\* Room.addUser: the user takes the next slot
addUser(room, u, c, team) ==
    [room EXCEPT !.users = Append(@, RoomUser(u, c, team))]

\* Room.removeUser: the user's slot is given up; when the host left, the
\* earliest remaining occupant becomes host, and the room closes when none
\* remains
removeUser(room, u) ==
    LET i == UserSlot(room, u)
        rest == RemoveAt(room.users, i)
    IN  IF i = 0 THEN room
        ELSE IF Len(rest) = 0 THEN ClosedRoom
        ELSE [room EXCEPT
                 !.users = rest,
                 !.host = IF room.host = u THEN rest[1].userId ELSE @]

\* Room.isUserReady
isUserReady(room, u) ==
    UserSlot(room, u) # 0 /\ room.users[UserSlot(room, u)].ready = "Ready"

\* Room.isGlobalCountdownInProgress
isGlobalCountdownInProgress(room) == room.status = "Countdown"

\* Room.toggleUserReadyStatus: the room after the call (unchanged when the
\* user holds no slot, where the call returns null)
toggleUserReadyStatus(room, u) ==
    LET i == UserSlot(room, u)
    IN  IF i = 0 THEN room
        ELSE [room EXCEPT !.users[i].ready =
                 IF @ = "Ready" THEN "NotReady" ELSE "Ready"]

\* Room.updateSettings: the fields the request carries replace the room's
updateSettings(room, newSettings) ==
    [room EXCEPT !.settings.mapId = newSettings.mapId,
                 !.settings.areBotsEnabled = newSettings.areBotsEnabled]

\* Room.updateUserTeam
updateUserTeam(room, u, team) ==
    LET i == UserSlot(room, u)
    IN  IF i = 0 THEN room ELSE [room EXCEPT !.users[i].team = team]

\* Room.canStartGame: both teams have a player, or bots are enabled
canStartGame(room) ==
    \/ room.settings.areBotsEnabled
    \/ \A t \in Teams : \E i \in 1..Len(room.users) : room.users[i].team = t

\* Room.progressCountdown, Room.stopCountdown, Room.hostGameStart
progressCountdown(room, count) ==
    [room EXCEPT !.status = "Countdown", !.countdown = count]
stopCountdown(room) == [room EXCEPT !.status = "Waiting"]
hostGameStart(room) == [room EXCEPT !.status = "Ingame"]

\* Room.endGame: the match is over, the room shows the result
endGame(room) == [room EXCEPT !.status = "Result"]

\* Channel.OnUserLeft: the user leaves the room its session is in
OnUserLeft(rs, sess) ==
    IF sess.currentRoom = null THEN rs
    ELSE [rs EXCEPT ![sess.currentRoom] = removeUser(@, sess.user)]

\* a frame of the given kind for connection c, and a frame for each occupant
Out(c, kind) == [to |-> c, kind |-> kind]
Broadcast(room, kind) ==
    [i \in 1..Len(room.users) |-> Out(room.users[i].conn, kind)]

\* Room.getFreeSlots
FreeSlots(room) == RoomCapacity - Len(room.users)

\* What a room operation of connection c found before it ran: the room of
\* the requester's session, and the free slots of the room the operation
\* leaves the session in.
NoSnapshot == [currentRoom |-> null, freeSlots |-> 0]
Snapshot(c, cur) ==
    [currentRoom |-> session[c].currentRoom,
     freeSlots |-> IF cur = null THEN 0 ELSE FreeSlots(rooms[cur])]

\* the number a connection that has not sent the shared packet assigned
NotSent == 0 - 2

\* the bytes a packet's builder may write after the header
MaxBody == 2

\* OutPacketBase.headerLength: signature, sequence and length; the packet id
\* that buildHeader writes after them counts as data
headerLength == 4

\* buildHeader writes the signature, the sequence, two bytes of length that
\* hold zero, and the packet id
BuiltHeaderLength == 5

\* new OutPacketBase after buildHeader: builtBuffer is null until getData
\* builds it; seqByte is byte 1 of the buffer, lengthField its bytes 2..3,
\* byteLength the bytes written so far
NewPacket ==
    [built |-> FALSE, seqByte |-> 0, assigned |-> [c \in Conns |-> NotSent],
     byteLength |-> BuiltHeaderLength, lengthField |-> 0]

\* the users the website asks for, and how often a password is changed
NumCacheUsers == 2
MaxPasswords == 2
CacheUsers == 1..NumCacheUsers

\* a User record is modelled by the number of the password it carries;
\* null stands for no record.  userCache = new LRU: no entry
EmptyCache == [id \in CacheUsers |-> null]

\* the user service: its users, whether UserSvcPing saw it alive, whether the
\* last call of UsersService went to the network, what the call returned, and
\* whether the call ran UserSvcPing.checkNow
NewUserSvc ==
    [users |-> [id \in CacheUsers |-> null], alive |-> TRUE,
     called |-> FALSE, returned |-> null, probed |-> FALSE]

\* no PacketString is being encoded
NoBuffer == [lengthByte |-> 0, bytes |-> <<>>]
NoString ==
    [stage |-> "none", str |-> <<>>, buf |-> NoBuffer, out |-> <<>>,
     actualStrLen |-> 0, totalLen |-> 0]

\* the process at its start: masterServer = null, the startup loop is set,
\* no ServerInstance was constructed, no signal arrived
NewProcess ==
    [masterServer |-> "null", loop |-> TRUE, ticks |-> 0, built |-> 0,
     signals |-> 0, exited |-> FALSE]

(***************************************************************************)
(* The socket specification: connections are accepted, written to and      *)
(* destroyed.                                                              *)
(***************************************************************************)
SockInit ==
    /\ sock = [c \in Conns |-> NoSocket]
    /\ logPackets \in BOOLEAN
    /\ connections = <<>>
    /\ session = [c \in Conns |-> NoSession]
    /\ task = [t \in Tasks |-> IdleTask]
    /\ closing = [c \in Conns |-> "no"]
    /\ log = [t \in Tasks |-> <<>>]
    /\ rooms = [r \in RoomIds |-> ClosedRoom]
    /\ sent = <<>>
    /\ op = NoOp
    /\ ret = TRUE
    /\ thrown = FALSE
    /\ before = NoSnapshot
    /\ packet = NewPacket
    /\ userCache = EmptyCache
    /\ userSvc = NewUserSvc
    /\ pstr = NoString
    /\ proc = NewProcess

\* the server accepts a connection; connections are numbered in the order
\* they are accepted
SockAccept(c) ==
    /\ sock[c].state = "none"
    /\ \A d \in 1..(c - 1) : sock[d].state # "none"
    /\ sock' = [sock EXCEPT ![c] = from(@)]
    /\ op' = Op("from", c, null)
    /\ ret' = TRUE
    /\ thrown' = FALSE
    /\ before' = NoSnapshot
    /\ UNCHANGED <<packet, userCache, userSvc, pstr, proc>>
    /\ UNCHANGED <<logPackets, connections, session, task, closing, log, rooms, sent>>

\* send: false on a destroyed socket, else what net.Socket.write returns
\* (false when the data was queued behind the high water mark)
SockSend(c, writeOk) ==
    /\ sock[c].state # "none"
    /\ Len(sock[c].wire) < MaxFrames
    /\ sock' = [sock EXCEPT ![c] = send(@, logPackets, "Packet", null)]
    /\ op' = Op("send", c, null)
    /\ ret' = (sock[c].state # "destroyed" /\ writeOk)
    /\ thrown' = FALSE
    /\ before' = NoSnapshot
    /\ UNCHANGED <<packet, userCache, userSvc, pstr, proc>>
    /\ UNCHANGED <<logPackets, connections, session, task, closing, log, rooms, sent>>

SockSendBuffer(c, writeOk) ==
    /\ sock[c].state # "none"
    /\ Len(sock[c].wire) < MaxFrames
    /\ sock' = [sock EXCEPT ![c] = sendBuffer(@, "Buffer", null)]
    /\ op' = Op("sendBuffer", c, null)
    /\ ret' = (sock[c].state # "destroyed" /\ writeOk)
    /\ thrown' = FALSE
    /\ before' = NoSnapshot
    /\ UNCHANGED <<packet, userCache, userSvc, pstr, proc>>
    /\ UNCHANGED <<logPackets, connections, session, task, closing, log, rooms, sent>>

SockDestroy(c) ==
    /\ sock[c].state = "open"
    /\ sock' = [sock EXCEPT ![c] = destroy(@)]
    /\ op' = Op("destroy", c, null)
    /\ ret' = TRUE
    /\ thrown' = FALSE
    /\ before' = NoSnapshot
    /\ UNCHANGED <<packet, userCache, userSvc, pstr, proc>>
    /\ UNCHANGED <<logPackets, connections, session, task, closing, log, rooms, sent>>

SockNext ==
    \/ \E c \in NetConns : SockAccept(c)
    \/ \E c \in NetConns, w \in BOOLEAN : SockSend(c, w)
    \/ \E c \in NetConns, w \in BOOLEAN : SockSendBuffer(c, w)
    \/ \E c \in NetConns : SockDestroy(c)

SpecSock == SockInit /\ [][SockNext]_vars

(***************************************************************************)
(* One packet object sent to several connections.  OutPacketBase.getData   *)
(* builds the buffer once and returns the same buffer on every later call; *)
(* send stamps its sequence byte into that buffer and hands the buffer to  *)
(* net.Socket.write, which does not copy it: the socket either puts the    *)
(* bytes on the wire during the call or keeps the buffer until it can.     *)
(***************************************************************************)
\* writeUInt16LE: the value the two bytes hold
UInt16 == 65536

\* getData that writes the whole byte length into the length field
getData_WholeLength(p) ==
    IF p.built
    THEN p
    ELSE [p EXCEPT !.built = TRUE, !.lengthField = p.byteLength % UInt16]

\* getData: the packet after the call.  The buffer is built on first use
\* and its length field set to the byte length less the header; later calls
\* return that buffer as it is
getData(p) ==
    IF p.built
    THEN p
    ELSE [p EXCEPT !.built = TRUE,
                   !.lengthField = (p.byteLength - headerLength) % UInt16]

\* the builder of the shared packet writes one more byte into its stream
\* before the buffer is built
PacketWrite ==
    /\ ~packet.built
    /\ packet.byteLength < BuiltHeaderLength + MaxBody
    /\ packet' = [packet EXCEPT !.byteLength = @ + 1]
    /\ op' = Op("write", null, null)
    /\ ret' = TRUE
    /\ thrown' = FALSE
    /\ before' = NoSnapshot
    /\ UNCHANGED <<userCache, userSvc, pstr, proc>>
    /\ UNCHANGED <<sock, logPackets, connections, session, task, closing,
                   log, rooms, sent>>

\* send(packet) with the shared packet on an open socket: the frame joins
\* the wire as written bytes, or as held when the socket kept the buffer
sendShared(s, p, held) ==
    LET n == getNextSeq(s.seq)
    IN  [s EXCEPT !.seq = n.seq,
                  !.sent = @ + 1,
                  !.wire = Append(@, Frame(StoredByte(n.value),
                                  IF held THEN "SharedHeld" ELSE "Shared",
                                  null))]

\* the packet after send stamped it for connection c
stamped(p, s, c) ==
    LET n == getNextSeq(s.seq)
    IN  [getData(p) EXCEPT !.seqByte = StoredByte(n.value),
                           !.assigned[c] = n.value]

\* the shared packet is sent to a connection that has not had it yet
ShareSend(c, writeOk, held) ==
    /\ sock[c].state # "none"
    /\ Len(sock[c].wire) < MaxFrames
    /\ packet.assigned[c] = NotSent
    /\ IF sock[c].state = "destroyed"
       THEN UNCHANGED <<sock, packet>>
       ELSE /\ sock' = [sock EXCEPT ![c] = sendShared(@, packet, held)]
            /\ packet' = stamped(packet, sock[c], c)
    /\ op' = Op("sendShared", c, null)
    /\ ret' = (sock[c].state # "destroyed" /\ writeOk)
    /\ thrown' = FALSE
    /\ before' = NoSnapshot
    /\ UNCHANGED <<userCache, userSvc, pstr, proc>>
    /\ UNCHANGED <<logPackets, connections, session, task, closing, log, rooms, sent>>

\* the socket of c drains: the buffers it held go out with the bytes they
\* hold now
ShareFlush(c) ==
    /\ sock[c].state = "open"
    /\ \E i \in 1..Len(sock[c].wire) : sock[c].wire[i].kind = "SharedHeld"
    /\ sock' = [sock EXCEPT ![c].wire =
                  [i \in 1..Len(@) |->
                      IF @[i].kind = "SharedHeld"
                      THEN Frame(packet.seqByte, "Shared", null)
                      ELSE @[i]]]
    /\ op' = Op("flush", c, null)
    /\ ret' = TRUE
    /\ thrown' = FALSE
    /\ before' = NoSnapshot
    /\ UNCHANGED <<packet, userCache, userSvc, pstr, proc>>
    /\ UNCHANGED <<logPackets, connections, session, task, closing, log, rooms, sent>>

ShareNext ==
    \/ PacketWrite
    \/ \E c \in NetConns : SockAccept(c)
    \/ \E c \in NetConns, w \in BOOLEAN : SockSend(c, w)
    \/ \E c \in NetConns, w \in BOOLEAN, h \in BOOLEAN : ShareSend(c, w, h)
    \/ \E c \in NetConns : ShareFlush(c)
    \/ \E c \in NetConns : SockDestroy(c)

SpecShare == SockInit /\ [][ShareNext]_vars

(***************************************************************************)
(* UserManager.onLoginPacket and UserManager.OnSocketClosed.  A handler is  *)
(* an async function: it runs to its next await in one step, and other     *)
(* handlers run while it waits for the user service.  What an invocation   *)
(* returned is its pc: returnedTrue or returnedFalse.                      *)
(***************************************************************************)
Call(call, kind) == [call |-> call, kind |-> kind]

\* one send or sendBuffer call applied to a socket
Deliver1(s, dumper, c, by) ==
    IF c.call = "send" THEN send(s, dumper, c.kind, by)
    ELSE sendBuffer(s, c.kind, by)

\* calls applied to a socket in order
RECURSIVE Deliver(_, _, _, _)
Deliver(s, dumper, calls, by) ==
    IF calls = <<>> THEN s
    ELSE Deliver(Deliver1(s, dumper, Head(calls), by), dumper, Tail(calls), by)

\* the kinds of a sequence of calls
Kinds(calls) == [i \in 1..Len(calls) |-> calls[i].kind]

\* SendUserDialogBox(conn, msg)
SendUserDialogBox(msg) == <<Call("send", msg)>>

\* sendUserInfoToSelf with the user update sent before the blob
sendUserInfoToSelf_UpdateFirst ==
    <<Call("send", "UserStart"), Call("send", "FullUserUpdate"),
      Call("sendBuffer", "Achievements")>>

\* sendUserInfoToSelf: UserStart, the achievements blob, FullUserUpdate
sendUserInfoToSelf ==
    <<Call("send", "UserStart"), Call("sendBuffer", "Achievements"),
      Call("send", "FullUserUpdate")>>

\* the four fetches of sendInventory, and what they may resolve to: TRUE
\* for the data, FALSE for null
Fetches == {"inventory", "cosmetics", "loadouts", "buyMenu"}
Fetched == [Fetches -> BOOLEAN]

\* sendInventory that tests the inventory alone
sendInventory_InventoryOnly(got) ==
    IF ~got["inventory"] THEN <<>>
    ELSE <<Call("send", "Inventory"), Call("sendBuffer", "Unlock"),
           Call("send", "Cosmetics"), Call("send", "Loadout"),
           Call("send", "BuyMenu")>>

\* sendInventory after its four fetches resolved: nothing when one is null
sendInventory(got) ==
    IF \E k \in Fetches : ~got[k] THEN <<>>
    ELSE <<Call("send", "Inventory"), Call("sendBuffer", "Unlock"),
           Call("send", "Cosmetics"), Call("send", "Loadout"),
           Call("send", "BuyMenu")>>

\* ChannelManager.sendChannelListTo(conn)
sendChannelListTo == <<Call("send", "ChannelList")>>

\* onLoginPacket from the resolved GetUserById up to the await in
\* sendInventory: what it does, in program order
LoginAttach == <<"session", "Add">> \o Kinds(sendUserInfoToSelf)

\* onLoginPacket after sendInventory's fetches resolved
LoginFinish(got) == sendInventory(got) \o sendChannelListTo

\* the LOGIN packet arrives: the handler calls userService.Login and waits
LoginBegin(t, c) ==
    /\ task[t].pc = "idle"
    /\ \A u \in 1..(t - 1) : task[u].pc # "idle"
    /\ sock[c].state = "open"
    /\ task' = [task EXCEPT ![t] = [pc |-> "awaitLogin", conn |-> c,
                                    user |-> null]]
    /\ log' = [log EXCEPT ![t] = <<"Login">>]
    /\ UNCHANGED <<sock, logPackets, connections, session, closing, op, ret, thrown, before, packet, userCache, userSvc, pstr, proc, rooms,
                   sent>>

\* LoginRejected with the two dialogs taken for each other
LoginRejected_Swapped(t, code) ==
    /\ task[t].pc = "awaitLogin"
    /\ LET c == task[t].conn
           msg == IF code = 0 THEN "GAME_LOGIN_BAD_PASSWORD"
                  ELSE "GAME_LOGIN_BAD_USERNAME"
       IN  /\ sock' = [sock EXCEPT ![c] =
                  Deliver(@, logPackets, SendUserDialogBox(msg), t)]
           /\ log' = [log EXCEPT ![t] = @ \o <<msg>>]
    /\ task' = [task EXCEPT ![t].pc = "returnedFalse", ![t].user = code]
    /\ UNCHANGED <<logPackets, connections, session, closing, op, ret, thrown, before, packet, userCache, userSvc, pstr, proc, rooms,
                   sent>>

\* Login returned 0 (no such user) or -1 (bad password); the user field of
\* the invocation is loggedUserId
LoginRejected(t, code) ==
    /\ task[t].pc = "awaitLogin"
    /\ LET c == task[t].conn
           msg == IF code = 0 THEN "GAME_LOGIN_BAD_USERNAME"
                  ELSE "GAME_LOGIN_BAD_PASSWORD"
       IN  /\ sock' = [sock EXCEPT ![c] =
                  Deliver(@, logPackets, SendUserDialogBox(msg), t)]
           /\ log' = [log EXCEPT ![t] = @ \o <<msg>>]
    /\ task' = [task EXCEPT ![t].pc = "returnedFalse", ![t].user = code]
    /\ UNCHANGED <<logPackets, connections, session, closing, op, ret, thrown, before, packet, userCache, userSvc, pstr, proc, rooms,
                   sent>>

\* Login returned a user id: the handler calls GetUserById and waits
LoginAccepted(t, u) ==
    /\ task[t].pc = "awaitLogin"
    /\ task' = [task EXCEPT ![t].pc = "awaitGetUser", ![t].user = u]
    /\ log' = [log EXCEPT ![t] = @ \o <<"GetUserById">>]
    /\ UNCHANGED <<sock, logPackets, connections, session, closing, op, ret, thrown, before, packet, userCache, userSvc, pstr, proc, rooms,
                   sent>>

\* GetUserById returned null
LoginUserMissing(t) ==
    /\ task[t].pc = "awaitGetUser"
    /\ LET c == task[t].conn
           msg == "GAME_LOGIN_INVALID_USERINFO"
       IN  /\ sock' = [sock EXCEPT ![c] =
                  Deliver(@, logPackets, SendUserDialogBox(msg), t)]
           /\ log' = [log EXCEPT ![t] = @ \o <<msg>>]
    /\ task' = [task EXCEPT ![t].pc = "returnedFalse"]
    /\ UNCHANGED <<logPackets, connections, session, closing, op, ret, thrown, before, packet, userCache, userSvc, pstr, proc, rooms,
                   sent>>

\* GetUserById returned the user: the session is made and attached, the
\* connection registered, the user info sent; sendInventory waits
LoginUserFound(t) ==
    /\ task[t].pc = "awaitGetUser"
    /\ LET c == task[t].conn
       IN  /\ session' = [session EXCEPT ![c] = UserSession(task[t].user, t)]
           /\ connections' = Add(connections, c)
           /\ sock' = [sock EXCEPT ![c] =
                  Deliver(@, logPackets, sendUserInfoToSelf, t)]
    /\ log' = [log EXCEPT ![t] = @ \o LoginAttach \o <<"getInventory">>]
    /\ task' = [task EXCEPT ![t].pc = "awaitInventory"]
    /\ UNCHANGED <<logPackets, closing, op, ret, thrown, before, packet, userCache, userSvc, pstr, proc, rooms, sent>>

\* the inventory fetches resolved: the bundle (when complete) and the
\* channel list are sent and the handler returns true
LoginInventoryDone(t, got) ==
    /\ task[t].pc = "awaitInventory"
    /\ LET c == task[t].conn
       IN  /\ sock' = [sock EXCEPT ![c] =
                  Deliver(@, logPackets, LoginFinish(got), t)]
    /\ log' = [log EXCEPT ![t] = @ \o Kinds(LoginFinish(got))]
    /\ task' = [task EXCEPT ![t].pc = "returnedTrue"]
    /\ UNCHANGED <<logPackets, connections, session, closing, op, ret, thrown, before, packet, userCache, userSvc, pstr, proc, rooms,
                   sent>>

\* the registry entry dropped when a connection with a session has closed
CloseRemove(list, c) == Remove(list, c)

\* the socket closes: OnSocketClosed returns at once without a session,
\* and else takes the user out of its channel, calls userService.Logout
\* and waits
SocketClosed(c) ==
    /\ sock[c].state = "open"
    /\ sock' = [sock EXCEPT ![c] = destroy(@)]
    /\ closing' = [closing EXCEPT ![c] =
           IF session[c].user = null THEN "closed" ELSE "awaitLogout"]
    /\ rooms' = IF session[c].user # null /\ session[c].currentChannel # null
                THEN OnUserLeft(rooms, session[c])
                ELSE rooms
    /\ sent' = <<>>
    /\ op' = Op("OnSocketClosed", c, null)
    /\ ret' = TRUE
    /\ thrown' = FALSE
    /\ before' = NoSnapshot
    /\ UNCHANGED <<packet, userCache, userSvc, pstr, proc>>
    /\ UNCHANGED <<logPackets, connections, session, task, log>>

\* Logout resolved: OnSocketClosed completes and the connection leaves the
\* registry
LogoutDone(c) ==
    /\ closing[c] = "awaitLogout"
    /\ closing' = [closing EXCEPT ![c] = "loggedOut"]
    /\ connections' = CloseRemove(connections, c)
    /\ UNCHANGED <<sock, logPackets, session, task, log, rooms, sent, op, ret, thrown, before, packet, userCache, userSvc, pstr, proc>>

\* no connection accepted yet; the server logs its packets
LoginInit == SockInit /\ logPackets

LoginNext ==
    \/ \E c \in NetConns : SockAccept(c)
    \/ \E t \in Tasks, c \in NetConns : LoginBegin(t, c)
    \/ \E t \in Tasks, code \in {0, 0 - 1} : LoginRejected(t, code)
    \/ \E t \in Tasks, u \in Users : LoginAccepted(t, u)
    \/ \E t \in Tasks : LoginUserMissing(t)
    \/ \E t \in Tasks : LoginUserFound(t)
    \/ \E t \in Tasks, got \in Fetched : LoginInventoryDone(t, got)
    \/ \E c \in NetConns : SocketClosed(c)
    \/ \E c \in NetConns : LogoutDone(c)

SpecLogin == LoginInit /\ [][LoginNext]_vars

(***************************************************************************)
(* C1: on every connection the sequence bytes of successive frames are     *)
(* consecutive modulo 256, whether written by send or by sendBuffer.       *)
(***************************************************************************)
C1_ConsecutiveSeq ==
    \A c \in Conns : \A i \in 1..(Len(sock[c].wire) - 1) :
        sock[c].wire[i + 1].seq = (sock[c].wire[i].seq + 1) % 256

(***************************************************************************)
(* C2: on a connection created by ExtendedSocket.from the n-th frame       *)
(* carries (n - 1) mod 256: 0, 1, ..., 255, 0.                             *)
(***************************************************************************)
C2_FreshCountsFromZero ==
    \A c \in Conns : \A i \in 1..Len(sock[c].wire) :
        sock[c].wire[i].seq = (i - 1) % 256

(***************************************************************************)
(* Helpers of the claims.                                                  *)
(***************************************************************************)
\* how many entries of list hold c
Count(list, c) == Cardinality({i \in 1..Len(list) : list[i] = c})

\* the step in which onLoginPacket calls ActiveConnections.Add(c)
AddCalled(c) ==
    \E t \in Tasks :
        /\ task[t].pc = "awaitGetUser"
        /\ task[t].conn = c
        /\ task'[t].pc = "awaitInventory"

\* the registered connections whose session belongs to user u
ConnsOf(u) ==
    {c \in Conns : Count(connections, c) > 0 /\ session[c].user = u}

\* the place of a step of the successful login in the order the claim
\* gives; 0 for the steps the claim does not order
Rank(kind) ==
    CASE kind = "session" -> 1
      [] kind = "Add" -> 2
      [] kind = "UserStart" -> 3
      [] kind = "Achievements" -> 4
      [] kind = "FullUserUpdate" -> 5
      [] kind \in {"Inventory", "Unlock", "Cosmetics", "Loadout", "BuyMenu"}
             -> 6
      [] kind = "ChannelList" -> 7
      [] OTHER -> 0

BundleRank == Rank("Inventory")

\* a sequence of steps respects the order: groups never go back, and only
\* the frames of the inventory bundle share a group
InOrder(steps) ==
    \A i, j \in 1..Len(steps) :
        (i < j /\ Rank(steps[i]) > 0 /\ Rank(steps[j]) > 0) =>
            \/ Rank(steps[i]) < Rank(steps[j])
            \/ Rank(steps[i]) = BundleRank /\ Rank(steps[j]) = BundleRank

\* the kinds of the frames invocation t wrote to connection c
WrittenBy(c, t) ==
    LET w == sock[c].wire
        idx == {i \in 1..Len(w) : w[i].by = t}
        F[k \in 0..Len(w)] ==
            IF k = 0 THEN <<>>
            ELSE IF k \in idx THEN Append(F[k - 1], w[k].kind)
            ELSE F[k - 1]
    IN  F[Len(w)]

\* the steps every successful login takes
LoginSteps ==
    {"session", "Add", "UserStart", "Achievements", "FullUserUpdate",
     "ChannelList"}

(***************************************************************************)
(* C6: a LOGIN packet handled on a connection that already has a session   *)
(* neither replaces the session nor registers the connection again.        *)
(***************************************************************************)
C6_FirstLoginOnly ==
    [][\A c \in Conns :
        session[c].user # null =>
            /\ session'[c] = session[c]
            /\ Count(connections', c) <= Count(connections, c)]_vars

(***************************************************************************)
(* C7: Add(c) on a registry that already holds c leaves the registry as    *)
(* it was: c is held once.                                                 *)
(***************************************************************************)
C7_AddIdempotent ==
    [][\A c \in Conns :
        (AddCalled(c) /\ Count(connections, c) > 0) =>
            connections' = connections]_vars

(***************************************************************************)
(* C8: at most one registered connection belongs to a user id, so          *)
(* FindByOwnerId returns the only registered connection of that user.      *)
(***************************************************************************)
C8_UniqueOwner ==
    \A u \in Users :
        /\ Cardinality(ConnsOf(u)) <= 1
        /\ ConnsOf(u) # {} =>
               ConnsOf(u) = {FindByOwnerId(connections, session, u)}

(***************************************************************************)
(* C9: once a logged-in connection has closed and OnSocketClosed has       *)
(* completed (the Logout call resolved), FindByOwnerId of its user returns *)
(* null.                                                                   *)
(***************************************************************************)
C9_LogoutEmptiesRegistry ==
    [][\A c \in Conns :
        (closing[c] = "awaitLogout" /\ closing'[c] = "loggedOut") =>
            FindByOwnerId(connections', session', session[c].user) = null]_vars

(***************************************************************************)
(* C10: a successful login attaches the session, registers the connection  *)
(* and then sends UserStart, the achievements blob, FullUserUpdate, the    *)
(* inventory bundle and last the channel list: the handler takes these     *)
(* steps in this order, and its frames reach the socket in this order.     *)
(***************************************************************************)
C10_LoginOrder ==
    \A t \in Tasks :
        /\ InOrder(log[t])
        /\ \A c \in Conns : InOrder(WrittenBy(c, t))
        /\ task[t].pc = "returnedTrue" =>
               /\ \A k \in LoginSteps : \E i \in 1..Len(log[t]) : log[t][i] = k
               /\ log[t][Len(log[t])] = "ChannelList"

\* a login that sent the whole bundle on an open connection has returned
C10_Witness ==
    \E t \in Tasks :
        /\ task[t].pc = "returnedTrue"
        /\ WrittenBy(task[t].conn, t) =
               <<"UserStart", "Achievements", "FullUserUpdate", "Inventory",
                 "Unlock", "Cosmetics", "Loadout", "BuyMenu", "ChannelList">>

\* the sequence bytes of the frames on the wire of connection c
SeqBytes(c) == [i \in 1..Len(sock[c].wire) |-> sock[c].wire[i].seq]

\* invocation t is the Login->ChannelList scenario: it returned true with
\* all inventory data, on a connection that is still open and carries no
\* frame of another invocation
LoginScenario(t) ==
    /\ task[t].pc = "returnedTrue"
    /\ \E i \in 1..Len(log[t]) : log[t][i] = "Inventory"
    /\ closing[task[t].conn] = "no"
    /\ \A i \in 1..Len(sock[task[t].conn].wire) :
           sock[task[t].conn].wire[i].by = t

(***************************************************************************)
(* C11: in the Login->ChannelList scenario the frames the login handler    *)
(* wrote carry the sequence bytes 0,1,2,3,4,5, the channel list last.      *)
(***************************************************************************)
C11_LoginSequence ==
    \A t \in Tasks :
        LoginScenario(t) =>
            LET w == sock[task[t].conn].wire
            IN  /\ SeqBytes(task[t].conn) = <<0, 1, 2, 3, 4, 5>>
                /\ w[Len(w)].kind = "ChannelList"

\* the dialogs of the login handler
LoginDialogs ==
    {"GAME_LOGIN_BAD_USERNAME", "GAME_LOGIN_BAD_PASSWORD",
     "GAME_LOGIN_INVALID_USERINFO"}

\* the dialog the claim gives for what the user service answered
DialogFor(loggedUserId, userFound) ==
    IF loggedUserId = 0 THEN "GAME_LOGIN_BAD_USERNAME"
    ELSE IF loggedUserId = 0 - 1 THEN "GAME_LOGIN_BAD_PASSWORD"
    ELSE IF ~userFound THEN "GAME_LOGIN_INVALID_USERINFO"
    ELSE "none"

\* invocation t fails in this step
LoginFails(t) == task[t].pc # "returnedFalse" /\ task'[t].pc = "returnedFalse"

(***************************************************************************)
(* C12: a login that fails creates no session and leaves the registry as   *)
(* it is, returns false and sends one dialog: BAD_USERNAME when Login      *)
(* returned 0, BAD_PASSWORD when it returned -1, INVALID_USERINFO when     *)
(* GetUserById returned null.  The dialog is the one frame the failing     *)
(* step writes, when the socket is not destroyed.                          *)
(***************************************************************************)
C12_FailedLogin ==
    [][\A t \in Tasks :
           /\ (task'[t] # task[t] /\ task'[t].pc \in
                   {"awaitLogin", "awaitGetUser", "returnedFalse"}) =>
                  session' = session /\ connections' = connections
           /\ LoginFails(t) =>
                  LET c == task[t].conn
                      msg == DialogFor(task'[t].user, FALSE)
                  IN  /\ log'[t] = Append(log[t], msg)
                      /\ \A i \in 1..Len(log[t]) : log[t][i] \notin LoginDialogs
                      /\ \A d \in Conns \ {c} : sock'[d] = sock[d]
                      /\ sock'[c].wire =
                             IF sock[c].state = "destroyed" THEN sock[c].wire
                             ELSE Append(sock[c].wire,
                                         Frame(sock'[c].wire[Len(sock'[c].wire)].seq,
                                               msg, t))]_vars

\* both kinds of failure have happened and left no session and no
\* registered connection
C12_Witness ==
    /\ connections = <<>>
    /\ \A c \in Conns : session[c] = NoSession
    /\ \E t, u \in Tasks :
           /\ task[t].pc = "returnedFalse" /\ task[u].pc = "returnedFalse"
           /\ task[t].user = 0 - 1 /\ task[u].user \in Users
           /\ WrittenBy(task[t].conn, t) = <<"GAME_LOGIN_BAD_PASSWORD">>
           /\ WrittenBy(task[u].conn, u) = <<"GAME_LOGIN_INVALID_USERINFO">>

(***************************************************************************)
(* RoomHandler: a Room packet of a connection is handled in one step.      *)
(* Every connection of the room specification is logged in, each as a user *)
(* of its own, and its socket carries no packetDumper, so that a write     *)
(* changes nothing of the socket that a handler reads; sent holds the      *)
(* frames the handler wrote, those for destroyed sockets left out.         *)
(***************************************************************************)
RoomInit ==
    /\ sock = [c \in Conns |-> from(NoSocket)]
    /\ logPackets = FALSE
    /\ connections = [c \in Conns |-> c]
    /\ session = [c \in Conns |-> UserSession(c, c)]
    /\ task = [t \in Tasks |-> IdleTask]
    /\ closing = [c \in Conns |-> "no"]
    /\ log = [t \in Tasks |-> <<>>]
    /\ rooms = [r \in RoomIds |-> ClosedRoom]
    /\ sent = <<>>
    /\ op = NoOp
    /\ ret = TRUE
    /\ thrown = FALSE
    /\ before = NoSnapshot
    /\ packet = NewPacket
    /\ userCache = EmptyCache
    /\ userSvc = NewUserSvc
    /\ pstr = NoString
    /\ proc = NewProcess

\* the frames that reach a socket: send writes nothing on a destroyed one
Written(frames) ==
    SelectSeq(frames, LAMBDA f : sock[f.to].state = "open")

\* the frames Room.removeUser writes: the others learn that the user left
\* and, when the host left, who the new host is
removeUserSent(room, u) ==
    LET after == removeUser(room, u)
    IN  IF UserSlot(room, u) = 0 THEN <<>>
        ELSE Broadcast(after, "PlayerLeave") \o
             (IF after.host # room.host THEN Broadcast(after, "SetHost")
              ELSE <<>>)

\* the state a handler of connection c leaves: the rooms, the room of the
\* session, the frames written and the value returned
Handled(name, c, rs, cur, frames, result) ==
    /\ rooms' = rs
    /\ session' = [session EXCEPT ![c].currentRoom = cur]
    /\ sent' = Written(frames)
    /\ op' = Op(name, c, null)
    /\ ret' = result
    /\ thrown' = FALSE
    /\ before' = Snapshot(c, cur)
    /\ UNCHANGED <<packet, userCache, userSvc, pstr, proc>>
    /\ UNCHANGED <<sock, logPackets, connections, task, closing, log>>

\* onRoomRequest: a Room packet arrives on an open connection with a session
onRoomRequest(c) == sock[c].state = "open" /\ session[c].user # null

\* the user picks a channel from the channel list
EnterChannel(c) ==
    /\ onRoomRequest(c)
    /\ session[c].currentChannel = null
    /\ session' = [session EXCEPT ![c].currentChannel = 1]
    /\ sent' = Written(<<Out(c, "RoomList")>>)
    /\ op' = Op("EnterChannel", c, null)
    /\ ret' = TRUE
    /\ thrown' = FALSE
    /\ before' = NoSnapshot
    /\ UNCHANGED <<packet, userCache, userSvc, pstr, proc>>
    /\ UNCHANGED <<sock, logPackets, connections, task, closing, log, rooms>>

\* onNewRoomRequest without the removal from the current room
onNewRoomRequest_NoVacate(c, options, team) ==
    LET s == session[c]
    IN  /\ onRoomRequest(c)
        /\ IF s.currentChannel = null
           THEN Handled("NewRoomRequest", c, rooms, null, <<>>, FALSE)
           ELSE /\ FreeRoomId(rooms) # null
                /\ Handled("NewRoomRequest", c,
                       createRoom(rooms, s.user, c, team, options),
                       FreeRoomId(rooms),
                       <<Out(c, "JoinNewRoom"), Out(c, "RoomSettings")>>,
                       TRUE)

onNewRoomRequest(c, options, team) ==
    LET s == session[c]
        vacated == IF s.currentRoom # null
                   THEN [rooms EXCEPT ![s.currentRoom] = removeUser(@, s.user)]
                   ELSE rooms
        left == IF s.currentRoom # null
                THEN removeUserSent(rooms[s.currentRoom], s.user)
                ELSE <<>>
    IN  /\ onRoomRequest(c)
        /\ IF s.currentChannel = null
           THEN Handled("NewRoomRequest", c, vacated, null, left, FALSE)
           ELSE /\ FreeRoomId(vacated) # null
                /\ Handled("NewRoomRequest", c,
                       createRoom(vacated, s.user, c, team, options),
                       FreeRoomId(vacated),
                       left \o <<Out(c, "JoinNewRoom"), Out(c, "RoomSettings")>>,
                       TRUE)

\* onJoinRoomRequest without its test for a free slot
onJoinRoomRequest_NoFullCheck(c, roomId, roomPassword, team) ==
    LET s == session[c]
        desiredRoom == getRoomById(rooms, roomId)
        Denied(msg) ==
            Handled("JoinRoomRequest", c, rooms, s.currentRoom,
                    <<Out(c, msg)>>, FALSE)
    IN  /\ onRoomRequest(c)
        /\ IF s.currentChannel = null
           THEN Handled("JoinRoomRequest", c, rooms, s.currentRoom, <<>>, FALSE)
           ELSE IF desiredRoom = null
           THEN Denied("GAME_ROOM_JOIN_FAILED_CLOSED")
           ELSE IF /\ IsPasswordProtected(rooms[desiredRoom])
                   /\ ~ComparePassword(rooms[desiredRoom], roomPassword)
           THEN Denied("GAME_ROOM_JOIN_FAILED_BAD_PASSWORD")
           ELSE Handled("JoinRoomRequest", c,
                    [rooms EXCEPT ![desiredRoom] = addUser(@, s.user, c, team)],
                    desiredRoom,
                    Broadcast(rooms[desiredRoom], "PlayerJoin") \o
                    <<Out(c, "JoinNewRoom"), Out(c, "RoomSettings"),
                      Out(c, "PlayerReady")>>,
                    TRUE)

onJoinRoomRequest(c, roomId, roomPassword, team) ==
    LET s == session[c]
        desiredRoom == getRoomById(rooms, roomId)
        Denied(msg) ==
            Handled("JoinRoomRequest", c, rooms, s.currentRoom,
                    <<Out(c, msg)>>, FALSE)
    IN  /\ onRoomRequest(c)
        /\ IF s.currentChannel = null
           THEN Handled("JoinRoomRequest", c, rooms, s.currentRoom, <<>>, FALSE)
           ELSE IF desiredRoom = null
           THEN Denied("GAME_ROOM_JOIN_FAILED_CLOSED")
           ELSE IF ~hasFreeSlots(rooms[desiredRoom])
           THEN Denied("GAME_ROOM_JOIN_FAILED_FULL")
           ELSE IF /\ IsPasswordProtected(rooms[desiredRoom])
                   /\ ~ComparePassword(rooms[desiredRoom], roomPassword)
           THEN Denied("GAME_ROOM_JOIN_FAILED_BAD_PASSWORD")
           ELSE Handled("JoinRoomRequest", c,
                    [rooms EXCEPT ![desiredRoom] = addUser(@, s.user, c, team)],
                    desiredRoom,
                    Broadcast(rooms[desiredRoom], "PlayerJoin") \o
                    <<Out(c, "JoinNewRoom"), Out(c, "RoomSettings"),
                      Out(c, "PlayerReady")>>,
                    TRUE)

onGameStartRequest(c) ==
    LET s == session[c]
        currentRoom == s.currentRoom
    IN  /\ onRoomRequest(c)
        /\ IF currentRoom = null
           THEN Handled("GameStartRequest", c, rooms, currentRoom, <<>>, FALSE)
           ELSE IF s.user = rooms[currentRoom].host
           THEN Handled("GameStartRequest", c,
                    [rooms EXCEPT ![currentRoom] = hostGameStart(@)],
                    currentRoom,
                    Broadcast(rooms[currentRoom], "GameStart"), TRUE)
           ELSE IF rooms[currentRoom].status = "Ingame"
           THEN Handled("GameStartRequest", c, rooms, currentRoom,
                    <<Out(c, "GameJoin")>>, TRUE)
           ELSE Handled("GameStartRequest", c, rooms, currentRoom, <<>>, FALSE)

\* onLeaveRoomRequest without its test of the ready status and the countdown
onLeaveRoomRequest_NoReadyCheck(c) ==
    LET s == session[c]
        currentRoom == s.currentRoom
    IN  /\ onRoomRequest(c)
        /\ IF currentRoom = null
           THEN Handled("LeaveRoomRequest", c, rooms, currentRoom, <<>>, FALSE)
           ELSE Handled("LeaveRoomRequest", c,
                    [rooms EXCEPT ![currentRoom] = removeUser(@, s.user)],
                    null,
                    removeUserSent(rooms[currentRoom], s.user) \o
                    <<Out(c, "RoomList")>>,
                    TRUE)

\* onLeaveRoomRequest without its call of removeUser
onLeaveRoomRequest_KeepSlot(c) ==
    LET s == session[c]
        currentRoom == s.currentRoom
    IN  /\ onRoomRequest(c)
        /\ IF currentRoom = null
           THEN Handled("LeaveRoomRequest", c, rooms, currentRoom, <<>>, FALSE)
           ELSE IF /\ isUserReady(rooms[currentRoom], s.user)
                   /\ isGlobalCountdownInProgress(rooms[currentRoom])
           THEN Handled("LeaveRoomRequest", c, rooms, currentRoom, <<>>, FALSE)
           ELSE Handled("LeaveRoomRequest", c, rooms, null,
                    <<Out(c, "RoomList")>>, TRUE)

onLeaveRoomRequest(c) ==
    LET s == session[c]
        currentRoom == s.currentRoom
    IN  /\ onRoomRequest(c)
        /\ IF currentRoom = null
           THEN Handled("LeaveRoomRequest", c, rooms, currentRoom, <<>>, FALSE)
           ELSE IF /\ isUserReady(rooms[currentRoom], s.user)
                   /\ isGlobalCountdownInProgress(rooms[currentRoom])
           THEN Handled("LeaveRoomRequest", c, rooms, currentRoom, <<>>, FALSE)
           ELSE Handled("LeaveRoomRequest", c,
                    [rooms EXCEPT ![currentRoom] = removeUser(@, s.user)],
                    null,
                    removeUserSent(rooms[currentRoom], s.user) \o
                    <<Out(c, "RoomList")>>,
                    TRUE)

\* The handlers of the ready status, the team and the countdown; they are
\* not among the steps of the room specification.
onToggleReadyRequest(c) ==
    LET s == session[c]
        currentRoom == s.currentRoom
    IN  /\ onRoomRequest(c)
        /\ IF currentRoom = null
           THEN Handled("ToggleReadyRequest", c, rooms, currentRoom, <<>>, FALSE)
           ELSE IF UserSlot(rooms[currentRoom], s.user) = 0
           THEN Handled("ToggleReadyRequest", c, rooms, currentRoom, <<>>, FALSE)
           ELSE Handled("ToggleReadyRequest", c,
                    [rooms EXCEPT ![currentRoom] =
                        toggleUserReadyStatus(@, s.user)],
                    currentRoom,
                    Broadcast(rooms[currentRoom], "PlayerReady"), TRUE)

onRoomUpdateSettings(c, newSettings) ==
    LET s == session[c]
        currentRoom == s.currentRoom
    IN  /\ onRoomRequest(c)
        /\ IF currentRoom = null
           THEN Handled("UpdateSettings", c, rooms, currentRoom, <<>>, FALSE)
           ELSE IF s.user # rooms[currentRoom].host
           THEN Handled("UpdateSettings", c, rooms, currentRoom, <<>>, FALSE)
           ELSE IF isGlobalCountdownInProgress(rooms[currentRoom])
           THEN Handled("UpdateSettings", c, rooms, currentRoom, <<>>, FALSE)
           ELSE Handled("UpdateSettings", c,
                    [rooms EXCEPT ![currentRoom] =
                        updateSettings(@, newSettings)],
                    currentRoom,
                    Broadcast(rooms[currentRoom], "RoomSettings"), TRUE)

\* onSetTeamRequest without its test of the ready status
onSetTeamRequest_NoReadyCheck(c, newTeam) ==
    LET s == session[c]
        currentRoom == s.currentRoom
    IN  /\ onRoomRequest(c)
        /\ IF currentRoom = null
           THEN Handled("SetUserTeamRequest", c, rooms, currentRoom, <<>>, FALSE)
           ELSE IF /\ rooms[currentRoom].settings.areBotsEnabled
                   /\ s.user # rooms[currentRoom].host
           THEN Handled("SetUserTeamRequest", c, rooms, currentRoom, <<>>, FALSE)
           ELSE Handled("SetUserTeamRequest", c,
                    [rooms EXCEPT ![currentRoom] =
                        updateUserTeam(@, s.user, newTeam)],
                    currentRoom,
                    Broadcast(rooms[currentRoom], "SetUserTeam"), TRUE)

onSetTeamRequest(c, newTeam) ==
    LET s == session[c]
        currentRoom == s.currentRoom
    IN  /\ onRoomRequest(c)
        /\ IF currentRoom = null
           THEN Handled("SetUserTeamRequest", c, rooms, currentRoom, <<>>, FALSE)
           ELSE IF isUserReady(rooms[currentRoom], s.user)
           THEN Handled("SetUserTeamRequest", c, rooms, currentRoom,
                    <<Out(c, "GAME_ROOM_CHANGETEAM_FAILED")>>, FALSE)
           ELSE IF /\ rooms[currentRoom].settings.areBotsEnabled
                   /\ s.user # rooms[currentRoom].host
           THEN Handled("SetUserTeamRequest", c, rooms, currentRoom, <<>>, FALSE)
           ELSE Handled("SetUserTeamRequest", c,
                    [rooms EXCEPT ![currentRoom] =
                        updateUserTeam(@, s.user, newTeam)],
                    currentRoom,
                    Broadcast(rooms[currentRoom], "SetUserTeam"), TRUE)

\* onGameStartToggleRequest without its test of the host
onGameStartToggleRequest_NoHostCheck(c, shouldCountdown, count) ==
    LET s == session[c]
        currentRoom == s.currentRoom
    IN  /\ onRoomRequest(c)
        /\ IF currentRoom = null
           THEN Handled("GameStartCountdownRequest", c, rooms, currentRoom,
                    <<>>, FALSE)
           ELSE IF ~canStartGame(rooms[currentRoom])
           THEN Handled("GameStartCountdownRequest", c, rooms, currentRoom,
                    <<Out(c, "GAME_ROOM_COUNTDOWN_FAILED_NOENEMIES")>>, FALSE)
           ELSE Handled("GameStartCountdownRequest", c,
                    [rooms EXCEPT ![currentRoom] =
                        IF shouldCountdown THEN progressCountdown(@, count)
                        ELSE stopCountdown(@)],
                    currentRoom,
                    Broadcast(rooms[currentRoom], "Countdown"), TRUE)

onGameStartToggleRequest(c, shouldCountdown, count) ==
    LET s == session[c]
        currentRoom == s.currentRoom
    IN  /\ onRoomRequest(c)
        /\ IF currentRoom = null
           THEN Handled("GameStartCountdownRequest", c, rooms, currentRoom,
                    <<>>, FALSE)
           ELSE IF s.user # rooms[currentRoom].host
           THEN Handled("GameStartCountdownRequest", c, rooms, currentRoom,
                    <<>>, FALSE)
           ELSE IF ~canStartGame(rooms[currentRoom])
           THEN Handled("GameStartCountdownRequest", c, rooms, currentRoom,
                    <<Out(c, "GAME_ROOM_COUNTDOWN_FAILED_NOENEMIES")>>, FALSE)
           ELSE Handled("GameStartCountdownRequest", c,
                    [rooms EXCEPT ![currentRoom] =
                        IF shouldCountdown THEN progressCountdown(@, count)
                        ELSE stopCountdown(@)],
                    currentRoom,
                    Broadcast(rooms[currentRoom], "Countdown"), TRUE)

\* The room specification: rooms are created, joined, left, started and
\* their settings updated, and connections close.  The team a slot gets
\* plays no part in these handlers, so every slot gets the same one.
RoomNext ==
    \/ \E c \in Conns : EnterChannel(c)
    \/ \E c \in Conns, p \in Passwords :
           onNewRoomRequest(c, [mapId |-> 1, roomPassword |-> p], "Terror")
    \/ \E c \in Conns, r \in RoomIds, p \in Passwords :
           onJoinRoomRequest(c, r, p, "Terror")
    \/ \E c \in Conns : onGameStartRequest(c)
    \/ \E c \in Conns : onLeaveRoomRequest(c)
    \/ \E c \in Conns, m \in MapIds :
           onRoomUpdateSettings(c, [mapId |-> m, areBotsEnabled |-> FALSE])
    \/ \E c \in Conns : SocketClosed(c)

SpecRoom == RoomInit /\ [][RoomNext]_vars

(***************************************************************************)
(* C3: every user is an occupant of at most one room, whatever sequence of *)
(* NewRoom, JoinRoom, LeaveRoom and connection close has run.              *)
(***************************************************************************)
C3_OneRoomPerUser ==
    \A c \in Conns :
        Cardinality({r \in RoomIds : session[c].user \in Occupants(rooms[r])})
            <= 1

(***************************************************************************)
(* C4: the host of every room that is not Closed is one of its occupants;  *)
(* when the host leaves its room or its connection closes, the earliest    *)
(* remaining occupant is the host, and the room is Closed when no occupant *)
(* remains.                                                                *)
(***************************************************************************)
HostIsOccupant ==
    \A r \in RoomIds :
        rooms[r].status # "Closed" => rooms[r].host \in Occupants(rooms[r])

\* connection c left its room in this step, by request or by closing
HasLeft(c) ==
    /\ op'.conn = c
    /\ \/ op'.name = "LeaveRoomRequest" /\ ret'
       \/ op'.name = "OnSocketClosed" /\ sock[c].state = "open"

HostMigrates ==
    \A c \in Conns :
        LET r == session[c].currentRoom
        IN  (r # null /\ rooms[r].host = session[c].user /\ HasLeft(c)) =>
                LET rest == RemoveAt(rooms[r].users,
                                     UserSlot(rooms[r], session[c].user))
                IN  IF Len(rest) = 0
                    THEN rooms'[r].status = "Closed"
                    ELSE /\ rooms'[r].status = rooms[r].status
                         /\ rooms'[r].users = rest
                         /\ rooms'[r].host = rest[1].userId

C5_SettingsFrozen ==
    [][\A c \in Conns :
           LET r == session[c].currentRoom
           IN  (/\ op'.name = "UpdateSettings"
                /\ op'.conn = c
                /\ \/ r = null
                   \/ rooms[r].status \in {"Countdown", "Ingame"}
                   \/ rooms[r].host # session[c].user)
               => rooms' = rooms]_vars

(***************************************************************************)
(* UserManager: the Host, Option and Favorite packets.  In the host        *)
(* specification every connection is open, some are logged in (each as a   *)
(* user of its own, registered in login order) and the others have no      *)
(* session yet.  A handler that waits for the user service is an           *)
(* invocation as in the login specification: its pc is awaitHostFetch      *)
(* while it waits, and its log holds the packet it handles.                *)
(***************************************************************************)
\* the user ids a packet can name
UserIds == 1..NumNetConns

\* the connections of a set in ascending order
RECURSIVE InOrderOf(_)
InOrderOf(S) ==
    IF S = {} THEN <<>>
    ELSE LET m == CHOOSE x \in S : \A y \in S : x <= y
         IN  <<m>> \o InOrderOf(S \ {m})

HostInit ==
    /\ sock = [c \in Conns |-> from(NoSocket)]
    /\ logPackets = FALSE
    /\ \E L \in SUBSET Conns :
           /\ connections = InOrderOf(L)
           /\ session = [c \in Conns |->
                  IF c \in L THEN UserSession(c, c) ELSE NoSession]
    /\ task = [t \in Tasks |-> IdleTask]
    /\ closing = [c \in Conns |-> "no"]
    /\ log = [t \in Tasks |-> <<>>]
    /\ rooms = [r \in RoomIds |-> ClosedRoom]
    /\ sent = <<>>
    /\ op = NoOp
    /\ ret = TRUE
    /\ thrown = FALSE
    /\ before = NoSnapshot
    /\ packet = NewPacket
    /\ userCache = EmptyCache
    /\ userSvc = NewUserSvc
    /\ pstr = NoString
    /\ proc = NewProcess

\* a handler of connection c that ended in an uncaught TypeError: it
\* returned no value, wrote nothing and changed nothing
Threw(name, c) ==
    /\ sent' = <<>>
    /\ op' = Op(name, c, null)
    /\ ret' = FALSE
    /\ thrown' = TRUE
    /\ before' = NoSnapshot
    /\ UNCHANGED <<packet, userCache, userSvc, pstr, proc>>
    /\ UNCHANGED <<sock, logPackets, connections, session, task, closing, log,
                   rooms>>

\* onRoomRequest with the dialog a rejected join gets sent back
DropRoomPacket_Reply(c) ==
    /\ sock[c].state = "open"
    /\ session[c].user = null
    /\ Handled("RoomRequest", c, rooms, session[c].currentRoom,
               <<Out(c, "GAME_ROOM_JOIN_FAILED_CLOSED")>>, FALSE)

\* onRoomRequest on a connection without a session
DropRoomPacket(c) ==
    /\ sock[c].state = "open"
    /\ session[c].user = null
    /\ Handled("RoomRequest", c, rooms, session[c].currentRoom, <<>>, FALSE)

\* onHostPacket, onOptionPacket, onFavoritePacket on a connection without
\* a session
DropHostPacket(c) ==
    /\ sock[c].state = "open"
    /\ session[c].user = null
    /\ Handled("HostPacket", c, rooms, session[c].currentRoom, <<>>, FALSE)

DropOptionPacket(c) ==
    /\ sock[c].state = "open"
    /\ session[c].user = null
    /\ Handled("OptionPacket", c, rooms, session[c].currentRoom, <<>>, FALSE)

DropFavoritePacket(c) ==
    /\ sock[c].state = "open"
    /\ session[c].user = null
    /\ Handled("FavoritePacket", c, rooms, session[c].currentRoom, <<>>, FALSE)

\* onHostPacket, onOptionPacket, onFavoritePacket: the packet arrives on an
\* open connection with a session
onHostPacket(c) == sock[c].state = "open" /\ session[c].user # null

\* onOptionSetBuyMenu, onFavoriteSetLoadout, onFavoriteSetCosmetics: the
\* user service stores the value and the handler returns true
onOptionPacket(c) ==
    /\ onHostPacket(c)
    /\ Handled("OptionPacket", c, rooms, session[c].currentRoom, <<>>, TRUE)

onFavoritePacket(c) ==
    /\ onHostPacket(c)
    /\ Handled("FavoritePacket", c, rooms, session[c].currentRoom, <<>>, TRUE)

\* UserSession.isInRoom
isInRoom(sess) == sess.currentRoom # null

\* The opening of each host-scoped handler: the target connection is
\* looked up and its session read before anything is checked, which throws
\* when the lookup returned null; then the requester must be in a room,
\* the target must have a session and the requester must be the host.
HostChecks(c, userId) ==
    LET targetConn == FindByOwnerId(connections, session, userId)
        requesterSession == session[c]
    IN  IF targetConn = null THEN "TypeError"
        ELSE IF ~isInRoom(requesterSession) THEN "false"
        ELSE IF session[targetConn].user = null THEN "false"
        ELSE IF rooms[requesterSession.currentRoom].host
                    # requesterSession.user THEN "false"
        ELSE "pass"

\* what a host-scoped handler does when its checks did not pass
HostDenied(name, c, userId) ==
    IF HostChecks(c, userId) = "TypeError" THEN Threw(name, c)
    ELSE Handled(name, c, rooms, session[c].currentRoom, <<>>, FALSE)

onItemUsing(c, userId) ==
    /\ onHostPacket(c)
    /\ IF HostChecks(c, userId) # "pass" THEN HostDenied("ItemUsing", c, userId)
       ELSE Handled("ItemUsing", c, rooms, session[c].currentRoom,
                    <<Out(c, "ItemUse")>>, TRUE)

onTeamChangingRequest(c, userId, newTeam) ==
    /\ onHostPacket(c)
    /\ IF HostChecks(c, userId) # "pass"
       THEN HostDenied("TeamChanging", c, userId)
       ELSE IF newTeam \notin Teams
       THEN Handled("TeamChanging", c, rooms, session[c].currentRoom, <<>>,
                    FALSE)
       ELSE Handled("TeamChanging", c,
                [rooms EXCEPT ![session[c].currentRoom] =
                    updateUserTeam(@, userId, newTeam)],
                session[c].currentRoom, <<>>, TRUE)

\* onHostSetUserInventory, onHostSetUserLoadout, onHostSetUserBuyMenu up to
\* their await: after the checks the handler waits for the user service.
\* One such handler waits at a time.
onHostSetUser(name, c, userId) ==
    /\ onHostPacket(c)
    /\ IF HostChecks(c, userId) # "pass"
       THEN HostDenied(name, c, userId)
       ELSE \E t \in Tasks :
                /\ \A u \in Tasks : task[u].pc = "idle"
                /\ t = 1
                /\ task' = [task EXCEPT ![t] =
                       [pc |-> "awaitHostFetch", conn |-> c, user |-> userId]]
                /\ log' = [log EXCEPT ![t] = <<name>>]
                /\ sent' = <<>>
                /\ op' = Op(name, c, null)
                /\ UNCHANGED <<sock, logPackets, connections, session,
                               closing, rooms, ret, thrown, before, packet,
                               userCache, userSvc, pstr, proc>>

onHostSetUserInventory(c, userId) == onHostSetUser("SetInventory", c, userId)
onHostSetUserLoadout(c, userId) == onHostSetUser("SetLoadout", c, userId)
onHostSetUserBuyMenu(c, userId) == onHostSetUser("SetBuyMenu", c, userId)

\* sendUserInventoryTo: the setInventory packet for the host carries the
\* user id it is labelled with and the items of the inventory that was
\* fetched, which is the inventory of hostUserId
sendUserInventoryTo(hostUserId, hostConn, targetUserId) ==
    [to |-> hostConn, kind |-> "SetInventory", userId |-> targetUserId,
     itemsOf |-> hostUserId]

\* sendUserInventoryTo, sendUserLoadoutTo, sendUserBuyMenuTo after the
\* fetch resolved: the packet goes to the host and the handler returns
\* true; reading the items of an inventory that is null throws.  The
\* invocation is over.
HostFetchDone(t, found) ==
    /\ task[t].pc = "awaitHostFetch"
    /\ IF log[t] = <<"SetInventory">> /\ ~found
       THEN /\ sent' = <<>>
            /\ ret' = FALSE
            /\ thrown' = TRUE
            /\ before' = NoSnapshot
            /\ UNCHANGED <<packet, userCache, userSvc, pstr, proc>>
       ELSE /\ sent' = Written(<<
                IF log[t] = <<"SetInventory">>
                THEN sendUserInventoryTo(session[task[t].conn].user,
                                         task[t].conn, task[t].user)
                ELSE Out(task[t].conn, log[t][1])>>)
            /\ ret' = TRUE
            /\ thrown' = FALSE
            /\ before' = NoSnapshot
            /\ UNCHANGED <<packet, userCache, userSvc, pstr, proc>>
    /\ op' = Op(log[t][1], task[t].conn, null)
    /\ task' = [task EXCEPT ![t] = IdleTask]
    /\ log' = [log EXCEPT ![t] = <<>>]
    /\ UNCHANGED <<sock, logPackets, connections, session, closing, rooms>>

HostNext ==
    \/ \E c \in Conns : EnterChannel(c)
    \/ \E c \in Conns :
           onNewRoomRequest(c, [mapId |-> 1, roomPassword |-> ""], "Terror")
    \/ \E c \in Conns, r \in RoomIds : onJoinRoomRequest(c, r, "", "Terror")
    \/ \E c \in Conns : DropRoomPacket(c)
    \/ \E c \in Conns : DropHostPacket(c)
    \/ \E c \in Conns : DropOptionPacket(c)
    \/ \E c \in Conns : DropFavoritePacket(c)
    \/ \E c \in Conns : onOptionPacket(c)
    \/ \E c \in Conns : onFavoritePacket(c)
    \/ \E c \in Conns, u \in UserIds : onItemUsing(c, u)
    \/ \E c \in Conns, u \in UserIds, t \in Teams \cup {"Unknown"} :
           onTeamChangingRequest(c, u, t)
    \/ \E c \in Conns, u \in UserIds : onHostSetUserInventory(c, u)
    \/ \E c \in Conns, u \in UserIds : onHostSetUserLoadout(c, u)
    \/ \E c \in Conns, u \in UserIds : onHostSetUserBuyMenu(c, u)
    \/ \E t \in Tasks, found \in BOOLEAN : HostFetchDone(t, found)

SpecHost == HostInit /\ [][HostNext]_vars

\* the names under which the packet handlers record what they handled
DroppedOps == {"RoomRequest", "HostPacket", "OptionPacket", "FavoritePacket"}
HostScopedOps ==
    {"ItemUsing", "TeamChanging", "SetInventory", "SetLoadout", "SetBuyMenu"}

(***************************************************************************)
(* C13: a Room, Host, Option or Favorite packet on a connection without a  *)
(* session is dropped: the handler returns false, writes no frame and      *)
(* changes no room, session or registry entry.                             *)
(***************************************************************************)
C13_NoSessionDropped ==
    [][\A c \in Conns :
           (session[c].user = null /\ op'.conn = c) =>
               /\ op'.name \in DroppedOps
               /\ ret' = FALSE /\ ~thrown'
               /\ sent' = <<>>
               /\ rooms' = rooms
               /\ session' = session
               /\ connections' = connections
               /\ sock' = sock]_vars

\* each kind of packet has been dropped on a connection without a session
\* while another connection hosts a room
C13_Witness ==
    /\ op.name = "FavoritePacket"
    /\ session[op.conn].user = null
    /\ ~ret
    /\ \E r \in RoomIds : rooms[r].status = "Waiting"

\* connection c handles a host-scoped packet that names user u in this step
HostScopedStep(c, u) ==
    \/ onItemUsing(c, u)
    \/ \E t \in Teams \cup {"Unknown"} : onTeamChangingRequest(c, u, t)
    \/ onHostSetUserInventory(c, u)
    \/ onHostSetUserLoadout(c, u)
    \/ onHostSetUserBuyMenu(c, u)

\* the handler denied the request: it returned false, wrote nothing and
\* changed no room
Denies ==
    /\ ~thrown' /\ ret' = FALSE
    /\ sent' = <<>>
    /\ rooms' = rooms
    /\ task' = task

\* the requester is in no room or is not the host of the room it is in
NotHost(c) ==
    \/ session[c].currentRoom = null
    \/ rooms[session[c].currentRoom].host # session[c].user

(***************************************************************************)
(* C14: a host-scoped request (SetInventory, SetLoadout, SetBuyMenu,       *)
(* TeamChanging, ItemUsing) of a requester that is in no room or is not    *)
(* the host of its room returns false, sends no packet and changes no      *)
(* occupant's team.                                                        *)
(***************************************************************************)
C14_HostOnly ==
    [][\A c \in Conns, u \in UserIds :
           (NotHost(c) /\ HostScopedStep(c, u)) => Denies]_vars

(***************************************************************************)
(* C15: a host-scoped request whose target user id the registry does not   *)
(* resolve, or resolves to a connection without a session, is denied: the  *)
(* handler returns false, sends no packet and changes no room.             *)
(***************************************************************************)
C15_UnresolvedTargetDenied ==
    [][\A c \in Conns, u \in UserIds :
           LET targetConn == FindByOwnerId(connections, session, u)
           IN  ((targetConn = null \/ session[targetConn].user = null)
                /\ HostScopedStep(c, u)) => Denies]_vars

\* connection c handles JoinRoomRequest(r, p) in this step
JoinStep(c, r, p) == \E t \in Teams : onJoinRoomRequest(c, r, p, t)

\* the dialogs the claim gives a join of room r with password p
JoinDialogs(r, p) ==
    IF rooms[r].status = "Closed" THEN {"GAME_ROOM_JOIN_FAILED_CLOSED"}
    ELSE (IF Len(rooms[r].users) >= RoomCapacity
          THEN {"GAME_ROOM_JOIN_FAILED_FULL"} ELSE {}) \cup
         (IF rooms[r].settings.roomPassword \notin {"", p}
          THEN {"GAME_ROOM_JOIN_FAILED_BAD_PASSWORD"} ELSE {})

\* the join was rejected as the claim says: false, one dialog of those that
\* apply, the rooms and the session as they were
JoinRejected(c, r, p) ==
    /\ ret' = FALSE
    /\ rooms' = rooms
    /\ session' = session
    /\ \E d \in JoinDialogs(r, p) : sent' = <<Out(c, d)>>

\* C16 as stated, for every requester: a join that is rejected returns
\* false, sends one dialog (CLOSED, FULL or BAD_PASSWORD as it applies) and
\* leaves the room and the requester's currentRoom as they were
C16_RejectedJoinAnyRequester ==
    [][\A c \in Conns, r \in RoomIds, p \in Passwords :
           (JoinStep(c, r, p) /\ (~ret' \/ JoinDialogs(r, p) # {})) =>
               JoinRejected(c, r, p)]_vars

(***************************************************************************)
(* C16: a JoinRoomRequest of a requester that is in a channel is rejected  *)
(* when the room does not exist (CLOSED dialog), has no free slot (FULL)   *)
(* or is password protected and the password differs (BAD_PASSWORD): it    *)
(* returns false, sends that one dialog and leaves the room and the        *)
(* requester's currentRoom as they were.  Every other join is admitted: a  *)
(* room with the empty password admits any password.  A requester in no    *)
(* channel is rejected with false and no dialog.                           *)
(***************************************************************************)
C16_RejectedJoin ==
    [][\A c \in Conns, r \in RoomIds, p \in Passwords :
           JoinStep(c, r, p) =>
               IF session[c].currentChannel = null
               THEN ret' = FALSE /\ rooms' = rooms /\ session' = session
                    /\ sent' = <<>>
               ELSE IF JoinDialogs(r, p) # {}
               THEN JoinRejected(c, r, p)
               ELSE /\ ret' = TRUE
                    /\ Len(rooms'[r].users) = Len(rooms[r].users) + 1
                    /\ session'[c].currentRoom = r]_vars

\* a join with the wrong password has been rejected, and one with any
\* password admitted to a public room
C16_Witness ==
    /\ op.name = "JoinRoomRequest"
    /\ ~ret
    /\ sent = <<Out(op.conn, "GAME_ROOM_JOIN_FAILED_BAD_PASSWORD")>>
    /\ \E r \in RoomIds :
           /\ rooms[r].settings.roomPassword = ""
           /\ Len(rooms[r].users) = RoomCapacity

\* the slots of the room that user u holds
SlotsOf(room, u) ==
    Cardinality({i \in 1..Len(room.users) : room.users[i].userId = u})

(***************************************************************************)
(* C17: when a user that is not an occupant of a room joins it and then    *)
(* leaves it, both with success, the free slots of the room and the        *)
(* user's session.currentRoom are what they were before the join.          *)
(***************************************************************************)
C17_JoinLeaveRestores ==
    [][\A c \in Conns :
           LET r == session[c].currentRoom
           IN  (/\ op.name = "JoinRoomRequest" /\ op.conn = c /\ ret
                /\ r # null
                /\ SlotsOf(rooms[r], session[c].user) = 1
                /\ op'.name = "LeaveRoomRequest" /\ op'.conn = c /\ ret')
               => /\ FreeSlots(rooms'[r]) = before.freeSlots
                  /\ session'[c].currentRoom = before.currentRoom]_vars

(***************************************************************************)
(* C18: send and sendBuffer on a connection whose socket is destroyed      *)
(* return false, hand nothing to the socket and leave the sequence         *)
(* counter and the real out counter as they were.                          *)
(***************************************************************************)
C18_DestroyedSendFails ==
    [][\A c \in NetConns :
           (/\ sock[c].state = "destroyed"
            /\ op'.name \in {"send", "sendBuffer"}
            /\ op'.conn = c)
           => /\ ret' = FALSE
              /\ sock'[c].wire = sock[c].wire
              /\ sock'[c].seq = sock[c].seq
              /\ sock'[c].realOutSeq = sock[c].realOutSeq]_vars

\* a send on a destroyed connection that has frames on the wire and logs
\* its packets has failed
C18_Witness ==
    /\ op.name = "send"
    /\ sock[op.conn].state = "destroyed"
    /\ ~ret
    /\ logPackets
    /\ Len(sock[op.conn].wire) > 0
SharedBytesKept ==
    [][\A c \in NetConns : ShareFlush(c) =>
          \A i \in 1..Len(sock[c].wire) : sock'[c].wire[i].seq = sock[c].wire[i].seq]_vars

\* two connections whose counters differ have both sent the shared packet
SharedStampsDiffer ==
    \E c, d \in NetConns :
        /\ packet.assigned[c] # NotSent
        /\ packet.assigned[d] # NotSent
        /\ packet.assigned[c] # packet.assigned[d]

(***************************************************************************)
(* Website UsersService: every call is handled in one step.  net is what   *)
(* the HTTP request met: "ok" when the user service answered, "error" when *)
(* the request failed and the call throws after UserSvcPing.checkNow.      *)
(***************************************************************************)
Nets == {"ok", "error"}

\* what every call leaves behind: the cache, the user service, the value
\* returned (ret: true, or a user that is not null) and whether it threw
Served(name, id, cache, svc, result, threw) ==
    /\ userCache' = cache
    /\ userSvc' = [svc EXCEPT !.probed = FALSE]
    /\ op' = Op(name, id, null)
    /\ ret' = result
    /\ thrown' = threw
    /\ before' = NoSnapshot
    /\ UNCHANGED <<sock, logPackets, connections, session, task, closing, log,
                   rooms, sent, packet, pstr, proc>>

\* the request of a call failed: checkNow probes the service, the call throws
Failed(name, id) ==
    \E a \in BOOLEAN :
        /\ userCache' = userCache
        /\ userSvc' = [userSvc EXCEPT !.alive = a, !.called = TRUE,
                                      !.returned = null, !.probed = TRUE]
        /\ op' = Op(name, id, null)
        /\ ret' = FALSE
        /\ thrown' = TRUE
        /\ before' = NoSnapshot
        /\ UNCHANGED <<sock, logPackets, connections, session, task, closing,
                       log, rooms, sent, packet, pstr, proc>>

\* UsersService.create: the service stores the user; nothing is cached
create(id, net) ==
    /\ userSvc.users[id] = null
    /\ IF net = "error"
       THEN Failed("create", id)
       ELSE Served("create", id, userCache,
                   [userSvc EXCEPT !.users[id] = 1, !.called = TRUE,
                                   !.returned = 1],
                   TRUE, FALSE)

\* UsersService.get: the cached user if there is one; null without a call
\* when the service is not alive; else the answer of the service, cached
get(id, net) ==
    IF userCache[id] # null
    THEN Served("get", id, userCache,
                [userSvc EXCEPT !.called = FALSE, !.returned = userCache[id]],
                TRUE, FALSE)
    ELSE IF ~userSvc.alive
    THEN Served("get", id, userCache,
                [userSvc EXCEPT !.called = FALSE, !.returned = null],
                FALSE, FALSE)
    ELSE IF net = "error"
    THEN Failed("get", id)
    ELSE IF userSvc.users[id] = null
    THEN Served("get", id, userCache,
                [userSvc EXCEPT !.called = TRUE, !.returned = null],
                FALSE, FALSE)
    ELSE Served("get", id, [userCache EXCEPT ![id] = userSvc.users[id]],
                [userSvc EXCEPT !.called = TRUE,
                                !.returned = userSvc.users[id]],
                TRUE, FALSE)

\* UsersService.getByName (the name of a user is modelled by its id): null
\* without a call when the service is not alive; else the answer of the
\* service, cached under the id of the user
getByName(id, net) ==
    IF ~userSvc.alive
    THEN Served("getByName", id, userCache,
                [userSvc EXCEPT !.called = FALSE, !.returned = null],
                FALSE, FALSE)
    ELSE IF net = "error"
    THEN Failed("getByName", id)
    ELSE IF userSvc.users[id] = null
    THEN Served("getByName", id, userCache,
                [userSvc EXCEPT !.called = TRUE, !.returned = null],
                FALSE, FALSE)
    ELSE Served("getByName", id, [userCache EXCEPT ![id] = userSvc.users[id]],
                [userSvc EXCEPT !.called = TRUE,
                                !.returned = userSvc.users[id]],
                TRUE, FALSE)

\* UsersService.updatePassword: true when the service answered 200
updatePassword(id, newPassword, net) ==
    IF net = "error"
    THEN Failed("updatePassword", id)
    ELSE IF userSvc.users[id] = null
    THEN Served("updatePassword", id, userCache,
                [userSvc EXCEPT !.called = TRUE, !.returned = null],
                FALSE, FALSE)
    ELSE Served("updatePassword", id, userCache,
                [userSvc EXCEPT !.users[id] = newPassword, !.called = TRUE,
                                !.returned = null],
                TRUE, FALSE)

\* UsersService.delete: true when the service answered 200
delete(id, net) ==
    IF net = "error"
    THEN Failed("delete", id)
    ELSE IF userSvc.users[id] = null
    THEN Served("delete", id, userCache,
                [userSvc EXCEPT !.called = TRUE, !.returned = null],
                FALSE, FALSE)
    ELSE Served("delete", id, userCache,
                [userSvc EXCEPT !.users[id] = null, !.called = TRUE,
                                !.returned = null],
                TRUE, FALSE)

\* UsersService.validate and validateSecurityAnswer: the id of the user
\* when the service answered 200
validate(id, net) ==
    IF net = "error"
    THEN Failed("validate", id)
    ELSE Served("validate", id, userCache,
                [userSvc EXCEPT !.called = TRUE,
                                !.returned = IF userSvc.users[id] = null
                                             THEN null ELSE id],
                userSvc.users[id] # null, FALSE)

\* createInventory, createCosmetics, createLoadouts, createBuymenu: true
\* when the service answered 201; a request that fails rejects the call
Bootstraps ==
    {"createInventory", "createCosmetics", "createLoadouts", "createBuymenu"}

createBootstrap(name, id, net) ==
    IF net = "error"
    THEN Served(name, id, userCache,
                [userSvc EXCEPT !.called = TRUE, !.returned = null],
                FALSE, TRUE)
    ELSE Served(name, id, userCache,
                [userSvc EXCEPT !.called = TRUE, !.returned = null],
                userSvc.users[id] # null, FALSE)

\* maxAge has passed for an entry: the cache no longer returns it
Expire(id) ==
    /\ userCache[id] # null
    /\ Served("expire", id, [userCache EXCEPT ![id] = null],
              [userSvc EXCEPT !.called = FALSE, !.returned = null],
              TRUE, FALSE)

\* the ticker of UserSvcPing probes the service
PingTick ==
    \E a \in BOOLEAN :
        /\ a # userSvc.alive
        /\ Served("ping", null, userCache,
                  [userSvc EXCEPT !.alive = a, !.called = TRUE,
                                  !.returned = null],
                  TRUE, FALSE)

CacheNext ==
    \/ \E id \in CacheUsers, net \in Nets : create(id, net)
    \/ \E id \in CacheUsers, net \in Nets : get(id, net)
    \/ \E id \in CacheUsers, net \in Nets : getByName(id, net)
    \/ \E id \in CacheUsers, pw \in 1..MaxPasswords, net \in Nets :
          updatePassword(id, pw, net)
    \/ \E id \in CacheUsers, net \in Nets : delete(id, net)
    \/ \E id \in CacheUsers, net \in Nets : validate(id, net)
    \/ \E name \in Bootstraps, id \in CacheUsers, net \in Nets :
          createBootstrap(name, id, net)
    \/ \E id \in CacheUsers : Expire(id)
    \/ PingTick

SpecCache == SockInit /\ [][CacheNext]_vars

\* some call of updatePassword(id) or delete(id) returns true in this step
WriteSucceeds(id) ==
    /\ \/ \E pw \in 1..MaxPasswords, net \in Nets : updatePassword(id, pw, net)
       \/ \E net \in Nets : delete(id, net)
    /\ ret'
    /\ ~thrown'

(***************************************************************************)
(* C20: after a successful updatePassword(id) or delete(id) the cache of   *)
(* users by id holds no entry for id.                                      *)
(***************************************************************************)
C20_WriteInvalidates ==
    [][\A id \in CacheUsers : WriteSucceeds(id) => userCache'[id] = null]_vars

\* what get returns from the cache is the user as the service holds it
CacheIsCurrent ==
    \A id \in CacheUsers :
        userCache[id] # null => userCache[id] = userSvc.users[id]

\* some call of get(id) or getByName(id) is handled in this step
LookupStep(id) ==
    \E net \in Nets : get(id, net) \/ getByName(id, net)

(***************************************************************************)
(* C21: while the probe reports the user service not alive, every call of  *)
(* get and getByName returns null and issues no network request, for every *)
(* user id.                                                                *)
(***************************************************************************)
C21_ShortCircuit ==
    [][\A id \in CacheUsers :
          (~userSvc.alive /\ LookupStep(id)) =>
              (userSvc'.returned = null /\ ~userSvc'.called)]_vars

\* the same for getByName alone, and for get of an id that is not cached
LookupUncachedStep(id) ==
    \E net \in Nets : (userCache[id] = null /\ get(id, net)) \/ getByName(id, net)

ShortCircuitUncached ==
    [][\A id \in CacheUsers :
          (~userSvc.alive /\ LookupUncachedStep(id)) =>
              (userSvc'.returned = null /\ ~userSvc'.called)]_vars

\* the calls of the client that the claim names
ClientCalls ==
    {"create", "get", "getByName", "updatePassword", "delete", "validate"}
        \cup Bootstraps

(***************************************************************************)
(* C22: every call of the user service client that fails with a transport  *)
(* error has run UserSvcPing.checkNow when the failure reaches the caller. *)
(***************************************************************************)
C22_FailureProbes ==
    [][(op'.name \in ClientCalls /\ thrown') => userSvc'.probed]_vars

\* the same for the calls that are not inventory bootstrap calls
FailureProbesOutsideBootstrap ==
    [][(op'.name \in ClientCalls \ Bootstraps /\ thrown') => userSvc'.probed]_vars

(***************************************************************************)
(* PacketString.  A string is a sequence of characters; a character is     *)
(* named by its code point and takes one, two or three bytes in UTF-8.  A  *)
(* byte of the encoding is the character it belongs to and its place in    *)
(* it.  A buffer is its first byte, a number, and the bytes after it.      *)
(***************************************************************************)
MaxChars == 257
MaxMixed == 2
Chars == {"u0061", "u00E9", "u20AC"}
Replacement == "uFFFD"
Width(ch) == IF ch = "u0061" THEN 1 ELSE IF ch = "u00E9" THEN 2 ELSE 3

\* new TextEncoder().encode(str), computed half by half
RECURSIVE encode(_)
encode(str) ==
    IF str = <<>> THEN <<>>
    ELSE IF Len(str) = 1
    THEN [k \in 1..Width(str[1]) |-> [of |-> str[1], at |-> k]]
    ELSE LET h == Len(str) \div 2
         IN  encode(SubSeq(str, 1, h)) \o encode(SubSeq(str, h + 1, Len(str)))

\* buffer.toString('utf8') of bytes that begin with the first byte of a
\* character: one character for every first byte, U+FFFD for a character
\* that is cut short by the end of the bytes
toString(bytes) ==
    LET firsts == SelectSeq([i \in 1..Len(bytes) |-> i],
                            LAMBDA i : bytes[i].at = 1)
    IN  [k \in 1..Len(firsts) |->
            IF firsts[k] + Width(bytes[firsts[k]].of) - 1 <= Len(bytes)
            THEN bytes[firsts[k]].of
            ELSE Replacement]

\* what storing a number in one byte of a Buffer keeps
UInt8(n) == n % 256

\* the strings that are encoded: every string of at most MaxMixed characters
\* and every string that repeats one character at most MaxChars times
Strings ==
    UNION {[1..n -> Chars] : n \in 0..MaxMixed}
        \cup {[i \in 1..n |-> ch] : n \in 0..MaxChars, ch \in Chars}

\* PacketString.toBuffer
toBuffer(str) ==
    [lengthByte |-> UInt8(Len(encode(str))), bytes |-> encode(str)]

\* PacketString.from: the string it returns, or <<"Error">> when the
\* constructor finds the decoded string to have another length
fromBuffer(data) ==
    LET length == data.lengthByte
        str == toString(SubSeq(data.bytes, 1,
                   IF length < Len(data.bytes) THEN length ELSE Len(data.bytes)))
        expectedLen == Len(encode(str))
    IN  IF length # 0 /\ expectedLen # length
        THEN [ok |-> FALSE, str |-> <<>>, actualStrLen |-> 0, totalLen |-> 0]
        ELSE [ok |-> TRUE, str |-> str, actualStrLen |-> expectedLen,
              totalLen |-> expectedLen + 1]

\* the buffers that arrive: a length byte, and an encoded string or the
\* first bytes of one
MaxLengthByte == 7
Buffers ==
    UNION {{[lengthByte |-> n, bytes |-> SubSeq(encode(str), 1, k)] :
                n \in 0..MaxLengthByte, k \in 0..Len(encode(str))} :
           str \in UNION {[1..m -> Chars] : m \in 0..MaxMixed}}

StrUnchanged ==
    UNCHANGED <<sock, logPackets, connections, session, task, closing, log,
                rooms, sent, op, ret, thrown, before, packet, userCache,
                userSvc, proc>>

\* new PacketString(s)
StrConstruct(s) ==
    /\ pstr.stage = "none"
    /\ pstr' = [pstr EXCEPT !.stage = "new", !.str = s]
    /\ StrUnchanged

StrToBuffer ==
    /\ pstr.stage = "new"
    /\ pstr' = [pstr EXCEPT !.stage = "encoded", !.buf = toBuffer(pstr.str)]
    /\ StrUnchanged

\* a buffer arrives from a client
StrReceive(data) ==
    /\ pstr.stage = "none"
    /\ pstr' = [pstr EXCEPT !.stage = "received", !.buf = data]
    /\ StrUnchanged

\* PacketString.from on a buffer that toBuffer made (the string comes out
\* decoded, or from has failed) or on one that arrived (parsed, or rejected)
StrFrom ==
    /\ pstr.stage \in {"encoded", "received"}
    /\ LET r == fromBuffer(pstr.buf)
           own == pstr.stage = "encoded"
       IN  pstr' = [pstr EXCEPT !.stage = IF own
                                          THEN IF r.ok THEN "decoded" ELSE "failed"
                                          ELSE IF r.ok THEN "parsed" ELSE "rejected",
                                !.out = r.str,
                                !.actualStrLen = r.actualStrLen,
                                !.totalLen = r.totalLen]
    /\ StrUnchanged

StrNext ==
    \/ \E s \in Strings : StrConstruct(s)
    \/ StrToBuffer
    \/ \E data \in Buffers : StrReceive(data)
    \/ StrFrom

SpecString == SockInit /\ [][StrNext]_vars

(***************************************************************************)
(* C23: a PacketString that is encoded with toBuffer and decoded with from *)
(* comes back as the string it was, and the buffer is one length byte that *)
(* equals the UTF-8 byte count of the string, followed by that many bytes. *)
(***************************************************************************)
C23_RoundTrip ==
    /\ pstr.stage \in {"encoded", "decoded", "failed"} =>
          /\ pstr.buf.lengthByte = Len(encode(pstr.str))
          /\ Len(pstr.buf.bytes) = pstr.buf.lengthByte
    /\ pstr.stage \in {"decoded", "failed"} =>
          /\ pstr.stage = "decoded"
          /\ pstr.out = pstr.str

\* the same for the strings of at most 255 bytes
RoundTripOneByteLength ==
    Len(encode(pstr.str)) <= 255 => C23_RoundTrip

(***************************************************************************)
(* The match specification: the users are in a channel; a room is created, *)
(* joined and left, its occupants toggle their ready status and change     *)
(* team, the settings switch the bots on and off, the countdown is started *)
(* and stopped, the match is started and ended.                            *)
(***************************************************************************)
MatchInit ==
    /\ sock = [c \in Conns |-> from(NoSocket)]
    /\ logPackets = FALSE
    /\ connections = [c \in Conns |-> c]
    /\ session = [c \in Conns |->
           [UserSession(c, c) EXCEPT !.currentChannel = 1]]
    /\ task = [t \in Tasks |-> IdleTask]
    /\ closing = [c \in Conns |-> "no"]
    /\ log = [t \in Tasks |-> <<>>]
    /\ rooms = [r \in RoomIds |-> ClosedRoom]
    /\ sent = <<>>
    /\ op = NoOp
    /\ ret = TRUE
    /\ thrown = FALSE
    /\ before = NoSnapshot
    /\ packet = NewPacket
    /\ userCache = EmptyCache
    /\ userSvc = NewUserSvc
    /\ pstr = NoString
    /\ proc = NewProcess

\* UserManager.onHostGameEnd: the room of the session ends its match
onHostGameEnd(c) ==
    LET s == session[c]
    IN  /\ onHostPacket(c)
        /\ IF ~isInRoom(s)
           THEN Handled("OnGameEnd", c, rooms, s.currentRoom, <<>>, FALSE)
           ELSE Handled("OnGameEnd", c,
                    [rooms EXCEPT ![s.currentRoom] = endGame(@)],
                    s.currentRoom,
                    Broadcast(rooms[s.currentRoom], "GameEnd"), TRUE)

\* the team values a request can carry: the two teams and one other value
TeamValues == Teams \cup {"Unknown"}

\* One room is followed: a room is asked for when none is open, and it is
\* joined by users that are in no room.
NoRoomOpen == \A r \in RoomIds : rooms[r].status = "Closed"

MatchNext ==
    \/ \E c \in Conns :
           /\ NoRoomOpen
           /\ onNewRoomRequest(c, [mapId |-> 1, roomPassword |-> ""], "Terror")
    \/ \E c \in Conns, r \in RoomIds :
           /\ session[c].currentRoom = null
           /\ onJoinRoomRequest(c, r, "", "Terror")
    \/ \E c \in Conns : onLeaveRoomRequest(c)
    \/ \E c \in Conns : onToggleReadyRequest(c)
    \/ \E c \in Conns, t \in TeamValues : onSetTeamRequest(c, t)
    \/ \E c \in Conns, b \in BOOLEAN :
           onRoomUpdateSettings(c, [mapId |-> 1, areBotsEnabled |-> b])
    \/ \E c \in Conns, b \in BOOLEAN, n \in Counts :
           onGameStartToggleRequest(c, b, n)
    \/ \E c \in Conns : onGameStartRequest(c)
    \/ \E c \in Conns : onHostGameEnd(c)
    \/ \E c \in Conns, u \in UserIds, t \in TeamValues :
           onTeamChangingRequest(c, u, t)

SpecMatch == MatchInit /\ [][MatchNext]_vars

\* the room of the session of c, and whether c is its host
RoomOf(c) == session[c].currentRoom
IsHostOfRoom(c) ==
    RoomOf(c) # null /\ rooms[RoomOf(c)].host = session[c].user

\* connection c asks to stop the countdown in this step
CancelStep(c) == \E n \in Counts : onGameStartToggleRequest(c, FALSE, n)

(***************************************************************************)
(* C24: when the host of a room whose countdown is in progress asks to     *)
(* stop the countdown, the room returns to Waiting and the cancellation is *)
(* broadcast to the occupants of the room.                                 *)
(***************************************************************************)
C24_CancelStopsCountdown ==
    [][\A c \in Conns :
          (/\ IsHostOfRoom(c)
           /\ rooms[RoomOf(c)].status = "Countdown"
           /\ CancelStep(c)) =>
              /\ rooms'[RoomOf(c)].status = "Waiting"
              /\ sent' = Written(Broadcast(rooms[RoomOf(c)], "Countdown"))]_vars

\* the same for a room that can start its game
CancelStopsCountdownWhenStartable ==
    [][\A c \in Conns :
          (/\ IsHostOfRoom(c)
           /\ rooms[RoomOf(c)].status = "Countdown"
           /\ canStartGame(rooms[RoomOf(c)])
           /\ CancelStep(c)) =>
              /\ rooms'[RoomOf(c)].status = "Waiting"
              /\ sent' = Written(Broadcast(rooms[RoomOf(c)], "Countdown"))]_vars

(***************************************************************************)
(* C25: the status of a room becomes Ingame only by a GameStartRequest of  *)
(* its host while the room is in Countdown; a GameStartRequest of an       *)
(* occupant that is not the host leaves the status as it is, returns true  *)
(* when the room is Ingame and false otherwise.                            *)
(***************************************************************************)
C25_IngameOnlyFromCountdown ==
    [][\A r \in RoomIds :
          (rooms[r].status # "Ingame" /\ rooms'[r].status = "Ingame") =>
              /\ rooms[r].status = "Countdown"
              /\ \E c \in Conns :
                    /\ RoomOf(c) = r
                    /\ IsHostOfRoom(c)
                    /\ onGameStartRequest(c)]_vars

\* the part of it about the requester and about a requester that is not
\* the host
IngameOnlyByHostStart ==
    [][/\ \A r \in RoomIds :
             (rooms[r].status # "Ingame" /\ rooms'[r].status = "Ingame") =>
                 \E c \in Conns :
                    RoomOf(c) = r /\ IsHostOfRoom(c) /\ onGameStartRequest(c)
       /\ \A c \in Conns :
             (RoomOf(c) # null /\ ~IsHostOfRoom(c) /\ onGameStartRequest(c)) =>
                 /\ rooms' = rooms
                 /\ ret' = (rooms[RoomOf(c)].status = "Ingame")]_vars

(***************************************************************************)
(* C26: OnGameEnd moves a room from Ingame to Result only when the host of *)
(* the room sends it while the room is Ingame; sent by an occupant that is *)
(* not the host, or in another status, it leaves the status unchanged.     *)
(***************************************************************************)
C26_GameEndByHostIngame ==
    [][\A c \in Conns :
          (RoomOf(c) # null /\ onHostGameEnd(c)) =>
              IF IsHostOfRoom(c) /\ rooms[RoomOf(c)].status = "Ingame"
              THEN rooms'[RoomOf(c)].status = "Result"
              ELSE rooms'[RoomOf(c)].status = rooms[RoomOf(c)].status]_vars

\* the host of a room in Ingame ends the match
GameEndOfHostIngame ==
    [][\A c \in Conns :
          (/\ IsHostOfRoom(c)
           /\ rooms[RoomOf(c)].status = "Ingame"
           /\ onHostGameEnd(c)) => rooms'[RoomOf(c)].status = "Result"]_vars

(***************************************************************************)
(* The server process.  Every five seconds the startup loop calls          *)
(* EntryPoint, which waits for the check of the user service and, when the *)
(* service is alive, starts the server: the address comes from the command *)
(* line or from getOrAskNetIntf, which EntryPoint waits for.  SIGINT and   *)
(* SIGTERM call masterServer.stop().  An invocation of EntryPoint is a     *)
(* task.                                                                   *)
(***************************************************************************)
MaxTicks == 3
MaxSignals == 2
Signals == {"SIGINT", "SIGTERM"}

ProcUnchanged ==
    UNCHANGED <<sock, logPackets, connections, session, closing, log, rooms,
                sent, before, packet, userCache, pstr>>

\* masterServer = new ServerInstance(...); masterServer.listen()
construct(p) ==
    [p EXCEPT !.masterServer = "listening", !.built = @ + 1]

\* the interval fires: EntryPoint is called and waits in checkServices
LoopTick(t) ==
    /\ ~proc.exited
    /\ proc.loop
    /\ proc.ticks < MaxTicks
    /\ task[t].pc = "idle"
    /\ \A u \in 1..(t - 1) : task[u].pc # "idle"
    /\ task' = [task EXCEPT ![t] =
           [pc |-> "awaitCheck", conn |-> null, user |-> null]]
    /\ proc' = [proc EXCEPT !.ticks = @ + 1]
    /\ op' = Op("EntryPoint", null, null)
    /\ ret' = TRUE
    /\ thrown' = FALSE
    /\ UNCHANGED userSvc
    /\ ProcUnchanged

\* checkServices returns what the probe found; EntryPoint returns false, or
\* goes on into startServer, which builds the server at once when the
\* command line names the address and else waits for getOrAskNetIntf
CheckDone(t, alive, ask) ==
    /\ ~proc.exited
    /\ task[t].pc = "awaitCheck"
    /\ userSvc' = [userSvc EXCEPT !.alive = alive, !.called = TRUE,
                                  !.returned = null, !.probed = TRUE]
    /\ op' = Op("checkServices", null, null)
    /\ ret' = alive
    /\ thrown' = FALSE
    /\ IF ~alive
       THEN /\ task' = [task EXCEPT ![t] = IdleTask]
            /\ proc' = proc
       ELSE IF ask
       THEN /\ task' = [task EXCEPT ![t].pc = "awaitIntf"]
            /\ proc' = proc
       ELSE /\ task' = [task EXCEPT ![t] = IdleTask]
            /\ proc' = [construct(proc) EXCEPT !.loop = FALSE]
    /\ ProcUnchanged

\* getOrAskNetIntf returned: without an interface the process exits, with
\* one the server is built, EntryPoint returns true and the loop is cleared
IntfDone(t, found) ==
    /\ ~proc.exited
    /\ task[t].pc = "awaitIntf"
    /\ task' = [task EXCEPT ![t] = IdleTask]
    /\ proc' = IF found THEN [construct(proc) EXCEPT !.loop = FALSE]
               ELSE [proc EXCEPT !.exited = TRUE]
    /\ op' = Op("startServer", null, null)
    /\ ret' = found
    /\ thrown' = FALSE
    /\ UNCHANGED userSvc
    /\ ProcUnchanged

\* the handler of SIGINT and SIGTERM: masterServer.stop().  Calling stop on
\* null throws a TypeError, which nothing catches: the process ends on it
OnSignal(sig) ==
    /\ ~proc.exited
    /\ proc.signals < MaxSignals
    /\ IF proc.masterServer = "null"
       THEN /\ proc' = [proc EXCEPT !.signals = @ + 1, !.exited = TRUE]
            /\ ret' = FALSE
            /\ thrown' = TRUE
       ELSE /\ proc' = [proc EXCEPT !.signals = @ + 1,
                                    !.masterServer = "stopped"]
            /\ ret' = TRUE
            /\ thrown' = FALSE
    /\ op' = Op(sig, null, null)
    /\ UNCHANGED <<task, userSvc>>
    /\ ProcUnchanged

ProcNext ==
    \/ \E t \in Tasks : LoopTick(t)
    \/ \E t \in Tasks, a \in BOOLEAN, k \in BOOLEAN : CheckDone(t, a, k)
    \/ \E t \in Tasks, f \in BOOLEAN : IntfDone(t, f)
    \/ \E sig \in Signals : OnSignal(sig)

SpecProc == SockInit /\ [][ProcNext]_vars

\* a signal is handled in this step
SignalStep == \E sig \in Signals : OnSignal(sig)

(***************************************************************************)
(* C27: at every point of the life of the process a SIGINT or SIGTERM is   *)
(* handled without an error, and stops the master server if there is one.  *)
(***************************************************************************)
C27_SignalShutsDown ==
    [][SignalStep =>
          /\ ~thrown'
          /\ proc.masterServer # "null" => proc'.masterServer = "stopped"]_vars

\* the same once a ServerInstance has been constructed
SignalStopsServer ==
    [][(SignalStep /\ proc.masterServer # "null") =>
          (~thrown' /\ proc'.masterServer = "stopped")]_vars

\* the occupant on connection c is ready while the countdown of its room
\* is in progress
ReadyInCountdown(c) ==
    /\ isUserReady(rooms[RoomOf(c)], session[c].user)
    /\ isGlobalCountdownInProgress(rooms[RoomOf(c)])

\* some frame of the sequence is of that kind and for that connection
SentTo(frames, c, kind) ==
    \E i \in 1..Len(frames) : frames[i] = Out(c, kind)

TeamOf(rs, r, c) ==
    IF r = null \/ UserSlot(rs[r], session[c].user) = 0 THEN "none"
    ELSE rs[r].users[UserSlot(rs[r], session[c].user)].team

\* connection c sends a SetUserTeamRequest in this step
SetTeamStep(c) == \E t \in TeamValues : onSetTeamRequest(c, t)

(***************************************************************************)
(* C29: a SetUserTeamRequest changes the team of the requester only if the *)
(* requester is in a room, is not ready, and the bots are disabled or the  *)
(* requester is the host; a ready occupant keeps its team and is sent the  *)
(* GAME_ROOM_CHANGETEAM_FAILED message; an occupant that is not the host   *)
(* keeps its team while the bots are enabled.                              *)
(***************************************************************************)
C29_TeamChangeGuards ==
    [][\A c \in Conns :
          SetTeamStep(c) =>
              /\ \A r \in RoomIds :
                    TeamOf(rooms', r, c) # TeamOf(rooms, r, c) =>
                        /\ r = RoomOf(c)
                        /\ ~isUserReady(rooms[r], session[c].user)
                        /\ \/ ~rooms[r].settings.areBotsEnabled
                           \/ IsHostOfRoom(c)
              /\ (RoomOf(c) # null /\ isUserReady(rooms[RoomOf(c)], session[c].user)) =>
                    /\ rooms' = rooms
                    /\ sent' = <<Out(c, "GAME_ROOM_CHANGETEAM_FAILED")>>
              /\ (/\ RoomOf(c) # null
                  /\ rooms[RoomOf(c)].settings.areBotsEnabled
                  /\ ~IsHostOfRoom(c)) => rooms' = rooms]_vars

\* a ready occupant asked for another team and was refused
C29_Witness ==
    /\ op.name = "SetUserTeamRequest"
    /\ RoomOf(op.conn) # null
    /\ ~ret
    /\ isUserReady(rooms[RoomOf(op.conn)], session[op.conn].user)
    /\ sent = <<Out(op.conn, "GAME_ROOM_CHANGETEAM_FAILED")>>

(***************************************************************************)
(* C30: in every reachable state the team of every occupied slot is        *)
(* Terror or Counter.                                                      *)
(***************************************************************************)
C30_TeamsAreValid ==
    \A r \in RoomIds : \A i \in 1..Len(rooms[r].users) :
        rooms[r].users[i].team \in Teams

\* the host's TeamChanging request with a value that is no team changes no
\* room
TeamChangingKeepsTeamsValid ==
    [][\A c \in Conns, u \in UserIds, t \in TeamValues \ Teams :
          onTeamChangingRequest(c, u, t) => rooms' = rooms]_vars

\* connection c sends a GameStartCountdownRequest in this step
CountdownStep(c) ==
    \E b \in BOOLEAN, n \in Counts : onGameStartToggleRequest(c, b, n)

(***************************************************************************)
(* C31: a GameStartCountdownRequest changes a room and is broadcast only   *)
(* when the host of the room sends it and the room can start its game.     *)
(* Sent by someone who is not the host it changes nothing and nothing is   *)
(* sent; sent by the host of a room that cannot start it changes nothing   *)
(* and the host alone is sent GAME_ROOM_COUNTDOWN_FAILED_NOENEMIES.        *)
(***************************************************************************)
C31_CountdownByHostOnly ==
    [][\A c \in Conns :
          CountdownStep(c) =>
              IF IsHostOfRoom(c) /\ canStartGame(rooms[RoomOf(c)])
              THEN /\ ret'
                   /\ sent' = Written(Broadcast(rooms[RoomOf(c)], "Countdown"))
                   /\ \A r \in RoomIds \ {RoomOf(c)} : rooms'[r] = rooms[r]
              ELSE /\ ~ret'
                   /\ rooms' = rooms
                   /\ sent' = IF IsHostOfRoom(c)
                              THEN <<Out(c, "GAME_ROOM_COUNTDOWN_FAILED_NOENEMIES")>>
                              ELSE <<>>]_vars

\* an occupant that is not the host has asked for the countdown of a room
\* that can start, and was refused
C31_Witness ==
    /\ op.name = "GameStartCountdownRequest"
    /\ ~ret
    /\ RoomOf(op.conn) # null
    /\ ~IsHostOfRoom(op.conn)
    /\ canStartGame(rooms[RoomOf(op.conn)])
    /\ sent = <<>>

\* connection c sends a NewRoomRequest in this step
NewRoomStep(c) ==
    \E p \in Passwords :
        onNewRoomRequest(c, [mapId |-> 1, roomPassword |-> p], "Terror")

\* the last two frames of the sequence
LastTwo(frames) ==
    IF Len(frames) < 2 THEN <<>>
    ELSE SubSeq(frames, Len(frames) - 1, Len(frames))

C33_TargetInventorySent ==
    \A i \in 1..Len(sent) :
        sent[i].kind = "SetInventory" => sent[i].itemsOf = sent[i].userId

\* the same for a host that asks for its own inventory
OwnInventorySent ==
    \A i \in 1..Len(sent) :
        (sent[i].kind = "SetInventory" /\ sent[i].userId = session[sent[i].to].user)
            => sent[i].itemsOf = sent[i].userId

\* the bytes PacketString.from consumes from the buffer, and the string
\* they decode to
Consumed(data) ==
    SubSeq(data.bytes, 1,
           IF data.lengthByte < Len(data.bytes) THEN data.lengthByte
           ELSE Len(data.bytes))

\* from has been applied to the buffer
FromDone == pstr.stage \in {"decoded", "failed", "parsed", "rejected"}
FromRaised == pstr.stage \in {"failed", "rejected"}

(***************************************************************************)
(* C34: PacketString.from raises an error whenever the length byte differs *)
(* from the UTF-8 byte count of the string decoded from the consumed       *)
(* slice, in particular when fewer bytes follow the length byte than it    *)
(* declares; when they agree it returns a PacketString whose actualStrLen  *)
(* is the length byte and whose totalLen is actualStrLen + 1.              *)
(***************************************************************************)
C34_FromChecksLength ==
    FromDone =>
        LET declared == pstr.buf.lengthByte
            counted == Len(encode(toString(Consumed(pstr.buf))))
        IN  /\ declared # counted => FromRaised
            /\ Len(pstr.buf.bytes) < declared => FromRaised
            /\ declared = counted =>
                  /\ ~FromRaised
                  /\ pstr.actualStrLen = declared
                  /\ pstr.totalLen = pstr.actualStrLen + 1

\* the same without the case of the short buffer
FromChecksDecodedLength ==
    FromDone =>
        LET declared == pstr.buf.lengthByte
            counted == Len(encode(toString(Consumed(pstr.buf))))
        IN  /\ declared # counted => FromRaised
            /\ declared = counted =>
                  /\ ~FromRaised
                  /\ pstr.actualStrLen = declared
                  /\ pstr.totalLen = pstr.actualStrLen + 1

(***************************************************************************)
(* C35: getData writes into bytes 2..3 of the buffer it builds the         *)
(* buffer's byte length less the header length, as an unsigned 16-bit      *)
(* value, and every later call returns that buffer with that length field, *)
(* however often the packet has been sent in between: once the buffer is   *)
(* built, no step changes its byte length or its length field.             *)
(***************************************************************************)
C35_GetDataIdempotent ==
    [][/\ packet'.built =>
            packet'.lengthField = (packet'.byteLength - headerLength) % UInt16
       /\ packet.built =>
            /\ packet'.built
            /\ packet'.byteLength = packet.byteLength
            /\ packet'.lengthField = packet.lengthField
            /\ getData(packet') = packet']_vars

\* a packet with a body has been sent on two connections, each of which
\* called getData
SharedSentTwice ==
    /\ packet.built
    /\ packet.byteLength > BuiltHeaderLength
    /\ \A c \in NetConns : packet.assigned[c] # NotSent
    /\ op.name = "sendShared"

(***************************************************************************)
(* ActiveConnections on its own: any caller may add or remove any          *)
(* connection, registered or not.                                          *)
(***************************************************************************)
\* the entries the registry may hold
MaxRegistry == 6

RegUnchanged ==
    /\ ret' = TRUE
    /\ thrown' = FALSE
    /\ before' = NoSnapshot
    /\ UNCHANGED <<sock, logPackets, session, task, closing, log, rooms,
                   sent, packet, userCache, userSvc, pstr, proc>>

\* ActiveConnections.Singleton().Add(c)
RegAdd(c) ==
    /\ Len(connections) < MaxRegistry
    /\ connections' = Add(connections, c)
    /\ op' = Op("Add", c, null)
    /\ RegUnchanged

\* ActiveConnections.Singleton().Remove(c)
RegRemove(c) ==
    /\ connections' = Remove(connections, c)
    /\ op' = Op("Remove", c, null)
    /\ RegUnchanged

RegNext ==
    \/ \E c \in NetConns : RegAdd(c)
    \/ \E c \in NetConns : RegRemove(c)

SpecRegistry == SockInit /\ [][RegNext]_vars

(***************************************************************************)
(* C36: Remove(conn) takes one entry of conn out of the registry when conn *)
(* is registered and leaves the registry as it is when conn is not         *)
(* registered; no entry of another connection is ever removed by it.       *)
(***************************************************************************)
C36_RemoveExact ==
    [][\A c \in NetConns : RegRemove(c) =>
          /\ Count(connections, c) = 0 => connections' = connections
          /\ \A d \in NetConns \ {c} :
                 Count(connections', d) = Count(connections, d)]_vars

\* the invocations of onLoginPacket made on connection c
LoginsOn(c) == {t \in Tasks : task[t].pc # "idle" /\ task[t].conn = c}

\* the close handler of c and every login handler of c have finished
HandlersFinished(c) ==
    /\ closing[c] \in {"closed", "loggedOut"}
    /\ \A t \in LoginsOn(c) : task[t].pc \in {"returnedTrue", "returnedFalse"}

\* connection c had one LOGIN packet, and its handler went through to
\* the end
OneLoginThrough(c) ==
    /\ Cardinality(LoginsOn(c)) = 1
    /\ \A t \in LoginsOn(c) : task[t].pc = "returnedTrue"

(***************************************************************************)
(* C37: a connection whose socket closed while its one onLoginPacket       *)
(* waited for the user service is, once OnSocketClosed and onLoginPacket   *)
(* have both finished, not in the registry, and the Login that succeeded   *)
(* upstream for it has been followed by a Logout.  (A close handler that   *)
(* found no session, on a connection whose login went through, ran while   *)
(* the login waited for Login or GetUserById.)                             *)
(***************************************************************************)
C37_CloseDuringLogin ==
    \A c \in NetConns :
        (HandlersFinished(c) /\ OneLoginThrough(c)) =>
            /\ Count(connections, c) = 0
            /\ closing[c] = "loggedOut"

\* a socket that closes once the session is attached, while sendInventory
\* waits or later, is logged out and leaves the registry
CloseAfterAttachLogsOut ==
    \A c \in NetConns :
        (HandlersFinished(c) /\ OneLoginThrough(c) /\ session[c].user # null
            /\ closing[c] = "loggedOut") =>
                Count(connections, c) = 0

(***************************************************************************)
(* C38: the retry loop builds and starts at most one ServerInstance in the *)
(* life of the process, also when an EntryPoint call still waits for the   *)
(* service check or the interface at the next tick, and it builds none     *)
(* while the probe reports the user service not alive.                     *)
(***************************************************************************)
C38_OneServerInstance ==
    [][/\ proc'.built <= 1
       /\ proc'.built > proc.built => userSvc'.alive]_vars

\* as long as one EntryPoint call at most has been made, one server at most
\* is built, and it is built with the service alive
OneCallOneServer ==
    [][proc'.ticks <= 1 =>
          /\ proc'.built <= 1
          /\ proc'.built > proc.built => userSvc'.alive]_vars

\* the kinds of the frames a step put on the wire of connection c
Added(c) ==
    [i \in 1..(Len(sock'[c].wire) - Len(sock[c].wire)) |->
        sock'[c].wire[Len(sock[c].wire) + i].kind]

(***************************************************************************)
(* C39: the inventory bundle of a login is all or nothing.  When one of    *)
(* the inventory, the cosmetics, the loadouts and the buy menu is fetched  *)
(* as null, the step that ends onLoginPacket on an open connection writes  *)
(* the channel list and no frame of the bundle, so that the bundle takes   *)
(* no sequence number, and the handler returns true; when all four are     *)
(* there it writes inventory, unlock blob, cosmetics, loadout, buy menu    *)
(* and then the channel list.                                              *)
(***************************************************************************)
C39_BundleAllOrNothing ==
    [][\A t \in Tasks, got \in Fetched :
          (LoginInventoryDone(t, got)
              /\ sock[task[t].conn].state = "open") =>
                 /\ task'[t].pc = "returnedTrue"
                 /\ Added(task[t].conn) =
                        IF \E k \in Fetches : ~got[k]
                        THEN <<"ChannelList">>
                        ELSE <<"Inventory", "Unlock", "Cosmetics",
                               "Loadout", "BuyMenu", "ChannelList">>]_vars

\* a login on an open connection has returned true without the bundle
C39_Witness ==
    \E t \in Tasks :
        /\ task[t].pc = "returnedTrue"
        /\ sock[task[t].conn].state = "open"
        /\ WrittenBy(task[t].conn, t) =
               <<"UserStart", "Achievements", "FullUserUpdate",
                 "ChannelList">>

====
